---------------------------- MODULE Spec2Model ----------------------------
(***************************************************************************)
(* Money Chess (wwgiles/money-chess).  The repository holds several copies *)
(* of the game;  each copy that is cited is modelled by a specification of *)
(* its own:                                                                *)
(*   Spec       the online component (components/money-chess-game.tsx,     *)
(*              second component of the file) with the server actions of   *)
(*              app/actions.ts and two browser clients;                    *)
(*   SpecLocal  the hot-seat copy with fog of war and a move timer         *)
(*              (unnamed/part_002);                                        *)
(*   SpecSetup  the online component while one player drafts, with every   *)
(*              handler of the setup panel;                                *)
(*   SpecNoLimit  Spec on a session created without a move time limit;    *)
(*   SpecDelivered  Spec with every announced change delivered;          *)
(*   SpecKings  SpecSetup side by side with the first hot-seat copy, where *)
(*              the King is bought from the palette (unnamed/part_001);    *)
(*   SpecKt     the Android copy (MainActivity.kt);                        *)
(*   SpecPlay   the hot-seat copy of SpecLocal in Playing, from drafts    *)
(*              with a piece of each side in column d, or with pieces on   *)
(*              the flanks;                                                *)
(*   SpecMoves  the visibility and move functions of the online component *)
(*              on boards of a few pieces;                                 *)
(*   SpecJoin   joinGameSession of app/actions.ts called by several        *)
(*              players at once.                                           *)
(***************************************************************************)
EXTENDS Integers, Sequences, FiniteSets, TLC

VARIABLES
    db,          \* the game_sessions row (column name -> value)
    cl,          \* cl[c] : React state of the client playing colour c
    mounted,     \* mounted[c] : the component of client c is rendered
    notif,       \* notif[c] : a postgres_changes event waits for client c
    cont,        \* cont[c] : finishSetup of client c is suspended at an await
    loads,       \* loads[c] : page loads of client c so far
    savedSetups, \* savedSetups[c] : localStorage "moneyChessSetups" of c
    ev,          \* the last handler that ran, with what it did
    loc          \* state of the hot-seat copies, of SpecMoves and of SpecJoin

vars == <<db, cl, mounted, notif, cont, loads, savedSetups, ev, loc>>

-----------------------------------------------------------------------------
(* Pieces, board, costs                                                    *)

Sides == {"white", "black"}

Other(side) == IF side = "white" THEN "black" ELSE "white"

Rows == 0..7

Pos == Rows \X Rows

NoPos == << >>

PieceTypes == {"PAWN", "KNIGHT", "BISHOP", "ROOK", "QUEEN", "KING"}

PIECE_COSTS ==
    [t \in PieceTypes |->
        CASE t = "PAWN" -> 1
          [] t = "KNIGHT" -> 3
          [] t = "BISHOP" -> 3
          [] t = "ROOK" -> 5
          [] t = "QUEEN" -> 9
          [] t = "KING" -> 0]

PURCHASABLE_PIECES == {"PAWN", "KNIGHT", "BISHOP", "ROOK", "QUEEN"}

StartBudget == 39

\* null of (ChessPiece | null)
Null == [type |-> "NULL", isWhite |-> FALSE]

Piece(t, w) == [type |-> t, isWhite |-> w]

\* a board is the function from its occupied squares to their pieces
EmptyBoard == [p \in {} |-> Null]

\* board[row][col]
At(board, p) == IF p \in DOMAIN board THEN board[p] ELSE Null

\* variant: writing null leaves the square as it was
PutKeepsOrigin(board, p, piece) ==
    [q \in DOMAIN board \cup (IF piece = Null THEN {} ELSE {p})
        |-> IF q = p /\ piece # Null THEN piece ELSE board[q]]

\* newBoard[row][col] = piece
Put(board, p, piece) ==
    [q \in IF piece = Null THEN DOMAIN board \ {p} ELSE DOMAIN board \cup {p}
        |-> IF q = p THEN piece ELSE board[q]]

InBoard(r, c) == r >= 0 /\ r <= 7 /\ c >= 0 /\ c <= 7

getDefaultKingPosition(isWhite) == <<IF isWhite THEN 7 ELSE 0, 4>>

hasKing(board, isWhite) ==
    \E p \in DOMAIN board :
        board[p].type = "KING" /\ board[p].isWhite = isWhite

InZone(isWhite, p) == IF isWhite THEN p[1] >= 5 ELSE p[1] <= 2

-----------------------------------------------------------------------------
(* Fog of war and move generation (online component)                       *)

\* variant: only the squares sharing a row or a column with the piece
calculateVisibleSquaresNoDiagonal(fog, board, playerIsWhite) ==
    IF ~fog THEN Pos
    ELSE {q \in Pos :
            \E p \in DOMAIN board :
                /\ board[p].isWhite = playerIsWhite
                /\ q[1] - p[1] \in -1..1
                /\ q[2] - p[2] \in -1..1
                /\ (q[1] = p[1] \/ q[2] = p[2])}

\* variant: the fogOfWarEnabled test is missing
calculateVisibleSquaresAlwaysFog(fog, board, playerIsWhite) ==
    {q \in Pos :
        \E p \in DOMAIN board :
            /\ board[p].isWhite = playerIsWhite
            /\ q[1] - p[1] \in -1..1
            /\ q[2] - p[2] \in -1..1}

calculateVisibleSquares(fog, board, playerIsWhite) ==
    IF ~fog THEN Pos
    ELSE {q \in Pos :
            \E p \in DOMAIN board :
                /\ board[p].isWhite = playerIsWhite
                /\ q[1] - p[1] \in -1..1
                /\ q[2] - p[2] \in -1..1}

\* variant: a ray goes on behind a piece it can capture
addMoveThroughCapture(board, visible, piece, r, c) ==
    IF ~InBoard(r, c) THEN "off"
    ELSE IF <<r, c>> \in visible
         THEN IF At(board, <<r, c>>) = Null THEN "go"
              ELSE IF At(board, <<r, c>>).isWhite # piece.isWhite THEN "go"
              ELSE "stop"
         ELSE "fog"

\* variant: a hidden square is treated by what stands on it
addMoveKnowsHidden(board, visible, piece, r, c) ==
    IF ~InBoard(r, c) THEN "off"
    ELSE IF At(board, <<r, c>>) = Null
         THEN IF <<r, c>> \in visible THEN "go" ELSE "fog"
         ELSE IF At(board, <<r, c>>).isWhite # piece.isWhite THEN "cap"
         ELSE "stop"

\* what addMove does with one square: "off" (out of the board, false),
\* "go" (visible and empty: visible move, true), "cap" (visible enemy:
\* visible move, false), "stop" (visible friendly: false), "fog" (hidden:
\* fog move, true)
addMove(board, visible, piece, r, c) ==
    IF ~InBoard(r, c) THEN "off"
    ELSE IF <<r, c>> \in visible
         THEN IF At(board, <<r, c>>) = Null THEN "go"
              ELSE IF At(board, <<r, c>>).isWhite # piece.isWhite THEN "cap"
              ELSE "stop"
         ELSE "fog"

\* the i-th square of a ray is examined when every earlier one returned true
RayExamined(board, visible, piece, pos, d, i) ==
    \A j \in 1..(i - 1) :
        addMove(board, visible, piece, pos[1] + d[1] * j, pos[2] + d[2] * j)
            \in {"go", "fog"}

\* variant: a ray is at most six squares long
RayMovesSixSteps(board, visible, piece, pos, dirs, kinds) ==
    {q \in Pos :
        \E d \in dirs : \E i \in 1..6 :
            /\ q = <<pos[1] + d[1] * i, pos[2] + d[2] * i>>
            /\ RayExamined(board, visible, piece, pos, d, i)
            /\ addMove(board, visible, piece, q[1], q[2]) \in kinds}

RayMoves(board, visible, piece, pos, dirs, kinds) ==
    {q \in Pos :
        \E d \in dirs : \E i \in 1..7 :
            /\ q = <<pos[1] + d[1] * i, pos[2] + d[2] * i>>
            /\ RayExamined(board, visible, piece, pos, d, i)
            /\ addMove(board, visible, piece, q[1], q[2]) \in kinds}

StepMoves(board, visible, piece, pos, offs, kinds) ==
    {q \in Pos :
        \E d \in offs :
            /\ q = <<pos[1] + d[1], pos[2] + d[2]>>
            /\ addMove(board, visible, piece, q[1], q[2]) \in kinds}

RookDirs == {<<0, 1>>, <<0, -1>>, <<1, 0>>, <<-1, 0>>}

BishopDirs == {<<1, 1>>, <<1, -1>>, <<-1, 1>>, <<-1, -1>>}

knightMoves ==
    {<<-2, -1>>, <<-2, 1>>, <<-1, -2>>, <<-1, 2>>,
     <<1, -2>>, <<1, 2>>, <<2, -1>>, <<2, 1>>}

kingMoves == (RookDirs \cup BishopDirs)

\* variant: the double step does not look at the square it jumps over
PawnVisibleMovesJump(board, visible, piece, pos) ==
    LET direction == IF piece.isWhite THEN -1 ELSE 1
        startRow == IF piece.isWhite THEN 6 ELSE 1
        row == pos[1]
        col == pos[2]
        one == <<row + direction, col>>
        two == <<row + 2 * direction, col>>
    IN  {q \in Pos :
            \/ /\ q = one
               /\ q \in visible
               /\ At(board, q) = Null
            \/ /\ row = startRow
               /\ q = two
               /\ q \in visible
               /\ At(board, two) = Null
            \/ /\ q[1] = row + direction
               /\ q[2] - col \in {-1, 1}
               /\ q \in visible
               /\ At(board, q) # Null
               /\ At(board, q).isWhite # piece.isWhite}

\* variant: a visible diagonal square is offered whatever stands on it
PawnVisibleMovesDiagonalFree(board, visible, piece, pos) ==
    LET direction == IF piece.isWhite THEN -1 ELSE 1
        startRow == IF piece.isWhite THEN 6 ELSE 1
        row == pos[1]
        col == pos[2]
        one == <<row + direction, col>>
        two == <<row + 2 * direction, col>>
    IN  {q \in Pos :
            \/ /\ q = one
               /\ q \in visible
               /\ At(board, q) = Null
            \/ /\ row = startRow
               /\ q = two
               /\ q \in visible
               /\ At(board, one) = Null
               /\ At(board, two) = Null
            \/ /\ q[1] = row + direction
               /\ q[2] - col \in {-1, 1}
               /\ q \in visible}

PawnVisibleMoves(board, visible, piece, pos) ==
    LET direction == IF piece.isWhite THEN -1 ELSE 1
        startRow == IF piece.isWhite THEN 6 ELSE 1
        row == pos[1]
        col == pos[2]
        one == <<row + direction, col>>
        two == <<row + 2 * direction, col>>
    IN  {q \in Pos :
            \/ /\ q = one
               /\ q \in visible
               /\ At(board, q) = Null
            \/ /\ row = startRow
               /\ q = two
               /\ q \in visible
               /\ At(board, one) = Null
               /\ At(board, two) = Null
            \/ /\ q[1] = row + direction
               /\ q[2] - col \in {-1, 1}
               /\ q \in visible
               /\ At(board, q) # Null
               /\ At(board, q).isWhite # piece.isWhite}

\* variant: the double step into the fog is offered only onto an empty square
PawnFogMovesEmptyTarget(board, visible, piece, pos) ==
    LET direction == IF piece.isWhite THEN -1 ELSE 1
        startRow == IF piece.isWhite THEN 6 ELSE 1
        row == pos[1]
        col == pos[2]
        one == <<row + direction, col>>
        two == <<row + 2 * direction, col>>
    IN  {q \in Pos :
            \/ /\ q = one
               /\ q \notin visible
            \/ /\ row = startRow
               /\ q = two
               /\ q \notin visible
               /\ (one \notin visible \/ At(board, one) = Null)
               /\ At(board, two) = Null
            \/ /\ q[1] = row + direction
               /\ q[2] - col \in {-1, 1}
               /\ q \notin visible}

PawnFogMoves(board, visible, piece, pos) ==
    LET direction == IF piece.isWhite THEN -1 ELSE 1
        startRow == IF piece.isWhite THEN 6 ELSE 1
        row == pos[1]
        col == pos[2]
        one == <<row + direction, col>>
        two == <<row + 2 * direction, col>>
    IN  {q \in Pos :
            \/ /\ q = one
               /\ q \notin visible
            \/ /\ row = startRow
               /\ q = two
               /\ q \notin visible
               /\ (one \notin visible \/ At(board, one) = Null)
            \/ /\ q[1] = row + direction
               /\ q[2] - col \in {-1, 1}
               /\ q \notin visible}

calculatePossibleMoves(fog, board, pos, piece) ==
    LET visible == calculateVisibleSquares(fog, board, piece.isWhite)
        dirs == CASE piece.type = "ROOK" -> RookDirs
                  [] piece.type = "BISHOP" -> BishopDirs
                  [] OTHER -> RookDirs \cup BishopDirs
    IN  CASE piece.type = "PAWN" ->
                [visibleMoves |-> PawnVisibleMoves(board, visible, piece, pos),
                 fogMoves |-> PawnFogMoves(board, visible, piece, pos)]
          [] piece.type \in {"ROOK", "BISHOP", "QUEEN"} ->
                [visibleMoves |->
                    RayMoves(board, visible, piece, pos, dirs, {"go", "cap"}),
                 fogMoves |->
                    RayMoves(board, visible, piece, pos, dirs, {"fog"})]
          [] piece.type = "KNIGHT" ->
                [visibleMoves |->
                    StepMoves(board, visible, piece, pos, knightMoves,
                              {"go", "cap"}),
                 fogMoves |->
                    StepMoves(board, visible, piece, pos, knightMoves, {"fog"})]
          [] OTHER ->
                [visibleMoves |->
                    StepMoves(board, visible, piece, pos, kingMoves,
                              {"go", "cap"}),
                 fogMoves |->
                    StepMoves(board, visible, piece, pos, kingMoves, {"fog"})]

NoMoves == [visibleMoves |-> {}, fogMoves |-> {}]


Sign(x) == IF x = 0 THEN 0 ELSE IF x > 0 THEN 1 ELSE -1

Abs(x) == IF x < 0 THEN -x ELSE x

\* squares of the path from fromPos (excluded) to toPos (included)
FogPath(fromPos, toPos) ==
    LET dirRow == Sign(toPos[1] - fromPos[1])
        dirCol == Sign(toPos[2] - fromPos[2])
        n == IF Abs(toPos[1] - fromPos[1]) > Abs(toPos[2] - fromPos[2])
             THEN Abs(toPos[1] - fromPos[1])
             ELSE Abs(toPos[2] - fromPos[2])
    IN  [i \in 1..n |-> <<fromPos[1] + dirRow * i, fromPos[2] + dirCol * i>>]

\* variant: the piece always reaches the square that was clicked
executeFogMoveDirect(board, fromPos, toPos, piece) == toPos

executeFogMove(board, fromPos, toPos, piece) ==
    IF piece.type \in {"KING", "KNIGHT", "PAWN"} THEN toPos
    ELSE LET path == FogPath(fromPos, toPos)
             hits == {i \in DOMAIN path :
                        /\ At(board, path[i]) # Null
                        /\ At(board, path[i]).isWhite # piece.isWhite}
         IN  IF hits = {} THEN toPos
             ELSE path[CHOOSE i \in hits : \A j \in hits : i <= j]

Files == <<"a", "b", "c", "d", "e", "f", "g", "h">>

\* `${String.fromCharCode(97 + col)}${8 - row}`
SquareName(p) == Files[p[2] + 1] \o ToString(8 - p[1])

moveNotation(fromPos, toPos) == SquareName(fromPos) \o "-" \o SquareName(toPos)

\* the verdict of checkGameStatus: the new gameStatus ("" when the game goes on)
checkGameStatus(board, nextPlayerTurn) ==
    IF nextPlayerTurn = "black" /\ ~hasKing(board, TRUE)
    THEN "Black wins! White king captured."
    ELSE IF nextPlayerTurn = "white" /\ ~hasKing(board, FALSE)
    THEN "White wins! Black king captured."
    ELSE ""

-----------------------------------------------------------------------------
(* The game_sessions row and the server actions                            *)

MaxLoads == 2

TimeLimit == 2

TimeLimits == {TimeLimit}

\* the row after createGameSession and joinGameSession
NewSession(fog, limit) ==
    [status |-> "in_progress",
     board_state |-> EmptyBoard,
     current_turn |-> "white",
     move_history |-> << >>,
     fog_of_war_enabled |-> fog,
     move_time_limit |-> limit,
     white_budget |-> StartBudget,
     black_budget |-> StartBudget,
     white_setup_complete |-> FALSE,
     black_setup_complete |-> FALSE,
     time_remaining_white |-> limit,
     time_remaining_black |-> limit]

\* supabase.from("game_sessions").update(updates): the named columns change
updateGameSession(row, updates) ==
    [k \in DOMAIN row |-> IF k \in DOMAIN updates THEN updates[k] ELSE row[k]]

-----------------------------------------------------------------------------
(* Client state of the online component                                    *)

\* useState initial values from the props GamePage passes
Hydrate(row) ==
    [gamePhase |-> IF row.status = "waiting" THEN "WAITING_FOR_OPPONENT"
                   ELSE "SETUP",
     currentPlayerTurn |-> row.current_turn,
     whiteBudget |-> row.white_budget,
     blackBudget |-> row.black_budget,
     board |-> row.board_state,
     selectedPiece |-> "null",
     selectedBoardPosition |-> NoPos,
     whiteSetupComplete |-> row.white_setup_complete,
     blackSetupComplete |-> row.black_setup_complete,
     fogOfWarEnabled |-> row.fog_of_war_enabled,
     moveTimeLimit |-> row.move_time_limit,
     timeRemainingWhite |-> row.time_remaining_white,
     timeRemainingBlack |-> row.time_remaining_black,
     selectedPosition |-> NoPos,
     possibleMoves |-> NoMoves,
     gameStatus |-> "",
     moveHistory |-> row.move_history]

\* what is left of a client whose page is not rendered
Gone == [Hydrate(NewSession(FALSE, 0)) EXCEPT !.gamePhase = "NONE"]

Budget(st, side) == IF side = "white" THEN st.whiteBudget ELSE st.blackBudget

SetBudget(st, side, b) ==
    IF side = "white" THEN [st EXCEPT !.whiteBudget = b]
    ELSE [st EXCEPT !.blackBudget = b]

BudgetColumn(side) == IF side = "white" THEN "white_budget" ELSE "black_budget"

\* variant: the effect never places a King
KingEffectBoardIdle(c, st) == st.board

\* the effect "Place default kings when players switch during setup":
\* the board it leaves, given the state a handler produced
KingEffectBoard(c, st) ==
    IF /\ st.gamePhase = "SETUP"
       /\ c = st.currentPlayerTurn
       /\ ~hasKing(st.board, c = "white")
    THEN Put(st.board, getDefaultKingPosition(c = "white"),
             Piece("KING", c = "white"))
    ELSE st.board

KingEffectFires(c, st) == KingEffectBoard(c, st) # st.board

-----------------------------------------------------------------------------
(* Bookkeeping shared by the handlers of the online component              *)

\* the kinds bought from the palette
Kinds == {"ROOK"}

NoUpdate == [k \in {} |-> TRUE]

NoCont == [pending |-> FALSE, otherComplete |-> FALSE]

\* the record of the last handler: which one (op), of which client (who),
\* the branch it took (what), the square clicked or reached (pos), the
\* origin of a move (from), the square clicked as its destination (target),
\* the piece placed or moved (piece), what stood on the landing square
\* (captured), and the turn and phase it started from
Ev(op, who, what) ==
    [op |-> op, who |-> who, what |-> what, pos |-> NoPos, from |-> NoPos,
     target |-> NoPos, piece |-> Null, captured |-> Null, turn |-> "none", phase |-> "NONE",
     legal |-> FALSE]

EvIn(op, c, what) ==
    [Ev(op, c, what) EXCEPT !.turn = cl[c].currentPlayerTurn,
                            !.phase = cl[c].gamePhase]

\* a handler of client c ends: its state updates are rendered, the
\* default-king effect runs on the result, the row takes the writes, and
\* every subscribed client is sent the change
Commit(c, st, updates, e) ==
    LET fires == KingEffectFires(c, st)
        st2 == [st EXCEPT !.board = KingEffectBoard(c, st)]
        row1 == updateGameSession(db, updates)
        row2 == IF fires
                THEN updateGameSession(row1, [board_state |-> st2.board])
                ELSE row1
        wrote == fires \/ DOMAIN updates # {}
    IN  /\ cl' = [cl EXCEPT ![c] = st2]
        /\ db' = row2
        /\ notif' = [d \in Sides |->
                        notif[d] \/ (wrote /\ (mounted[d] \/ (d = c /\ e.op = "mount")))]
        /\ ev' = e

\* the client can take user input: rendered, and no handler of its own is
\* suspended
Ready(c) == mounted[c] /\ ~cont[c].pending

\* the setup panel is rendered for client c
SetupPanel(c) ==
    /\ Ready(c)
    /\ cl[c].gamePhase = "SETUP"
    /\ c = cl[c].currentPlayerTurn

-----------------------------------------------------------------------------
(* Page load, realtime subscription                                        *)

\* GamePage fetches the row and renders the component with it
Mount(c) ==
    /\ loads[c] < MaxLoads
    /\ loads' = [loads EXCEPT ![c] = @ + 1]
    /\ mounted' = [mounted EXCEPT ![c] = TRUE]
    /\ cont' = [cont EXCEPT ![c] = NoCont]
    /\ Commit(c, Hydrate(db), NoUpdate, Ev("mount", c, "hydrate"))
    /\ UNCHANGED <<savedSetups, loc>>

\* the field of the payload the subscription reads, if the payload has it
Field(payload, name) ==
    IF name \in DOMAIN payload THEN <<payload[name]>> ELSE << >>

\* the postgres_changes handler: payload.new is the changed row, the
\* handler reads the props names from it
Received(st, payload) ==
    [board |-> Field(payload, "initialBoard"),
     currentPlayerTurn |-> Field(payload, "initialCurrentTurn"),
     moveHistory |-> Field(payload, "initialMoveHistory"),
     whiteBudget |-> Field(payload, "initialWhiteBudget"),
     blackBudget |-> Field(payload, "initialBlackBudget"),
     whiteSetupComplete |-> Field(payload, "initialWhiteSetupComplete"),
     blackSetupComplete |-> Field(payload, "initialBlackSetupComplete"),
     timeRemainingWhite |-> Field(payload, "initialTimeRemainingWhite"),
     timeRemainingBlack |-> Field(payload, "initialTimeRemainingBlack"),
     fogOfWarEnabled |-> Field(payload, "initialFogOfWarEnabled"),
     moveTimeLimit |-> Field(payload, "initialMoveTimeLimit"),
     gamePhase |->
        IF /\ Field(payload, "initialStatus") = <<"in_progress">>
           /\ st.gamePhase = "WAITING_FOR_OPPONENT"
        THEN "SETUP"
        ELSE IF Field(payload, "initialStatus") = <<"finished">>
        THEN "GAME_OVER"
        ELSE st.gamePhase,
     gameStatus |->
        IF Field(payload, "initialStatus") = <<"finished">>
        THEN "Game Over!" ELSE st.gameStatus]

\* the state after the handler, when every field it set has a value
Merged(st, r) ==
    [st EXCEPT !.board = r.board[1],
               !.currentPlayerTurn = r.currentPlayerTurn[1],
               !.moveHistory = r.moveHistory[1],
               !.whiteBudget = r.whiteBudget[1],
               !.blackBudget = r.blackBudget[1],
               !.whiteSetupComplete = r.whiteSetupComplete[1],
               !.blackSetupComplete = r.blackSetupComplete[1],
               !.timeRemainingWhite = r.timeRemainingWhite[1],
               !.timeRemainingBlack = r.timeRemainingBlack[1],
               !.fogOfWarEnabled = r.fogOfWarEnabled[1],
               !.moveTimeLimit = r.moveTimeLimit[1],
               !.gamePhase = r.gamePhase,
               !.gameStatus = r.gameStatus]

\* the next render reads board[row][col]: it throws when board is undefined
Renders(r) == r.gamePhase = "WAITING_FOR_OPPONENT" \/ r.board # << >>

Deliver(c) ==
    /\ mounted[c]
    /\ notif[c]
    /\ notif' = [notif EXCEPT ![c] = FALSE]
    /\ LET r == Received(cl[c], db)
       IN  IF Renders(r)
           THEN /\ cl' = [cl EXCEPT ![c] = Merged(cl[c], r)]
                /\ mounted' = mounted
                /\ ev' = Ev("deliver", c, "merged")
           ELSE /\ cl' = [cl EXCEPT ![c] = Gone]
                /\ mounted' = [mounted EXCEPT ![c] = FALSE]
                /\ ev' = Ev("deliver", c, "crashed")
    /\ UNCHANGED <<db, cont, loads, savedSetups, loc>>

-----------------------------------------------------------------------------
(* handleSquareClick                                                       *)

\* what the relocation writes on top of the mover's budget:
\* piece?.type !== KING ? PIECE_COSTS[piece?.type || PAWN] : 0
PersistedRefund(piece) ==
    IF piece.type # "KING"
    THEN PIECE_COSTS[IF piece = Null THEN "PAWN" ELSE piece.type]
    ELSE 0

\* Setup, a board piece is selected: try to move it to pos
SetupMove(c, st, pos) ==
    LET w == (c = "white")
        piece == At(st.board, pos)
        selectedSquarePiece == At(st.board, st.selectedBoardPosition)
        refund == IF piece # Null /\ piece.isWhite = w /\ piece.type # "KING"
                  THEN PIECE_COSTS[piece.type] ELSE 0
        newBoard == Put(Put(st.board, st.selectedBoardPosition, Null),
                        pos, selectedSquarePiece)
    IN  IF /\ selectedSquarePiece # Null
           /\ InZone(w, pos)
           /\ (piece = Null \/ piece.isWhite # w)
        THEN [st |-> [SetBudget(st, c, Budget(st, c) + refund)
                        EXCEPT !.board = newBoard,
                               !.selectedBoardPosition = NoPos,
                               !.selectedPiece = "null"],
              upd |-> [board_state |-> newBoard,
                       white_budget |->
                           IF w THEN st.whiteBudget + PersistedRefund(piece)
                           ELSE st.whiteBudget,
                       black_budget |->
                           IF ~w THEN st.blackBudget + PersistedRefund(piece)
                           ELSE st.blackBudget],
              e |-> [EvIn("click", c, "relocate")
                        EXCEPT !.pos = pos, !.from = st.selectedBoardPosition,
                               !.piece = selectedSquarePiece,
                               !.captured = piece]]
        ELSE [st |-> [st EXCEPT !.selectedBoardPosition = NoPos,
                                !.selectedPiece = "null"],
              upd |-> NoUpdate,
              e |-> [EvIn("click", c, "deselect") EXCEPT !.pos = pos]]

\* variant: the placement forgets the price
SetupPlaceFree(c, st, pos) ==
    LET newBoard == Put(st.board, pos, Piece(st.selectedPiece, c = "white"))
    IN  [st |-> [st EXCEPT !.board = newBoard, !.selectedPiece = "null"],
         upd |-> [board_state |-> newBoard],
         e |-> [EvIn("click", c, "place")
                   EXCEPT !.pos = pos,
                          !.piece = Piece(st.selectedPiece, c = "white")]]

\* Setup, a palette piece is selected and pos is a free square of the zone
SetupPlace(c, st, pos) ==
    LET w == (c = "white")
        currentBudget == Budget(st, c)
        cost == PIECE_COSTS[st.selectedPiece]
        newBoard == Put(st.board, pos, Piece(st.selectedPiece, w))
    IN  IF currentBudget >= cost
        THEN [st |-> [SetBudget(st, c, currentBudget - cost)
                        EXCEPT !.board = newBoard, !.selectedPiece = "null"],
              upd |-> IF w
                      THEN [board_state |-> newBoard,
                            white_budget |-> st.whiteBudget - cost]
                      ELSE [board_state |-> newBoard,
                            black_budget |-> st.blackBudget - cost],
              e |-> [EvIn("click", c, "place")
                        EXCEPT !.pos = pos,
                               !.piece = Piece(st.selectedPiece, w)]]
        ELSE [st |-> st, upd |-> NoUpdate,
              e |-> [EvIn("click", c, "unaffordable") EXCEPT !.pos = pos]]

SetupClick(c, st, pos) ==
    LET w == (c = "white")
        piece == At(st.board, pos)
        canPlacePiece ==
            st.selectedPiece # "null" /\ piece = Null /\ InZone(w, pos)
        canSelectPiece ==
            piece # Null /\ piece.isWhite = w /\ InZone(w, pos)
    IN  IF st.selectedBoardPosition # NoPos THEN SetupMove(c, st, pos)
        ELSE IF canPlacePiece THEN SetupPlace(c, st, pos)
        ELSE IF canSelectPiece
        THEN [st |-> [st EXCEPT !.selectedBoardPosition = pos,
                                !.selectedPiece = "null"],
              upd |-> NoUpdate,
              e |-> [EvIn("click", c, "select") EXCEPT !.pos = pos]]
        ELSE [st |-> [st EXCEPT !.selectedBoardPosition = NoPos,
                                !.selectedPiece = "null"],
              upd |-> NoUpdate,
              e |-> [EvIn("click", c, "deselect") EXCEPT !.pos = pos]]

\* Playing, pos is one of the stored possible moves: make the move, then
\* checkGameStatus
PlayMove(c, st, pos) ==
    LET movingPiece == At(st.board, st.selectedPosition)
        isFogMoveTarget == pos \in st.possibleMoves.fogMoves
        finalPosition ==
            IF isFogMoveTarget /\ st.fogOfWarEnabled
            THEN executeFogMove(st.board, st.selectedPosition, pos, movingPiece)
            ELSE pos
        newBoard == Put(Put(st.board, st.selectedPosition, Null),
                        finalPosition, movingPiece)
        updatedMoveHistory ==
            Append(st.moveHistory,
                   moveNotation(st.selectedPosition, finalPosition))
        nextPlayer == Other(st.currentPlayerTurn)
        newGameStatus == checkGameStatus(newBoard, nextPlayer)
        over == newGameStatus # ""
        moved == [board_state |-> newBoard,
                  current_turn |-> nextPlayer,
                  move_history |-> updatedMoveHistory,
                  time_remaining_white |->
                      IF nextPlayer = "white" THEN st.moveTimeLimit
                      ELSE st.timeRemainingWhite,
                  time_remaining_black |->
                      IF nextPlayer = "black" THEN st.moveTimeLimit
                      ELSE st.timeRemainingBlack]
        legalNow == calculatePossibleMoves(st.fogOfWarEnabled, st.board,
                                           st.selectedPosition, movingPiece)
    IN  [st |-> [st EXCEPT !.board = newBoard,
                           !.moveHistory = updatedMoveHistory,
                           !.currentPlayerTurn = nextPlayer,
                           !.selectedPosition = NoPos,
                           !.possibleMoves = NoMoves,
                           !.gameStatus = newGameStatus,
                           !.gamePhase = IF over THEN "GAME_OVER" ELSE @],
         upd |-> IF over THEN moved @@ [status |-> "finished"] ELSE moved,
         e |-> [EvIn("click", c, "move")
                    EXCEPT !.pos = finalPosition, !.from = st.selectedPosition,
                           !.target = pos,
                           !.piece = movingPiece,
                           !.captured = At(st.board, finalPosition),
                           !.legal = pos \in (legalNow.visibleMoves
                                                \cup legalNow.fogMoves)]]

PlayClick(c, st, pos) ==
    LET w == (c = "white")
        piece == At(st.board, pos)
        isVisibleMove == pos \in st.possibleMoves.visibleMoves
        isFogMoveTarget == pos \in st.possibleMoves.fogMoves
    IN  IF isVisibleMove \/ isFogMoveTarget
        THEN IF st.selectedPosition # NoPos THEN PlayMove(c, st, pos)
             ELSE [st |-> st, upd |-> NoUpdate,
                   e |-> [EvIn("click", c, "nothing") EXCEPT !.pos = pos]]
        ELSE IF piece # Null /\ piece.isWhite = w
        THEN [st |-> [st EXCEPT
                        !.selectedPosition = pos,
                        !.possibleMoves =
                            calculatePossibleMoves(st.fogOfWarEnabled,
                                                   st.board, pos, piece)],
              upd |-> NoUpdate,
              e |-> [EvIn("click", c, "pick") EXCEPT !.pos = pos]]
        ELSE [st |-> [st EXCEPT !.selectedPosition = NoPos,
                                !.possibleMoves = NoMoves],
              upd |-> NoUpdate,
              e |-> [EvIn("click", c, "unpick") EXCEPT !.pos = pos]]

\* variant: the handler does not test whose turn it is
handleSquareClickAnyTurn(c, st, pos) ==
    IF st.gamePhase = "GAME_OVER"
    THEN [st |-> st, upd |-> NoUpdate,
          e |-> [EvIn("click", c, "rejected") EXCEPT !.pos = pos]]
    ELSE IF st.gamePhase = "SETUP" THEN SetupClick(c, st, pos)
    ELSE IF st.gamePhase = "PLAYING" THEN PlayClick(c, st, pos)
    ELSE [st |-> st, upd |-> NoUpdate,
          e |-> [EvIn("click", c, "nothing") EXCEPT !.pos = pos]]

handleSquareClick(c, st, pos) ==
    IF st.gamePhase = "GAME_OVER" \/ c # st.currentPlayerTurn
    THEN [st |-> st, upd |-> NoUpdate,
          e |-> [EvIn("click", c, "rejected") EXCEPT !.pos = pos]]
    ELSE IF st.gamePhase = "SETUP" THEN SetupClick(c, st, pos)
    ELSE IF st.gamePhase = "PLAYING" THEN PlayClick(c, st, pos)
    ELSE [st |-> st, upd |-> NoUpdate,
          e |-> [EvIn("click", c, "nothing") EXCEPT !.pos = pos]]

SquareClick(c, pos) ==
    /\ Ready(c)
    /\ LET r == handleSquareClick(c, cl[c], pos)
       IN  Commit(c, r.st, r.upd, r.e)
    /\ UNCHANGED <<mounted, cont, loads, savedSetups, loc>>

-----------------------------------------------------------------------------
(* Setup panel: palette, delete, presets, saved setups                     *)

\* palette button: onClick={() => canAfford && setSelectedPiece(pieceType)}
SelectPiece(c, kind) ==
    /\ SetupPanel(c)
    /\ Budget(cl[c], c) >= PIECE_COSTS[kind]
    /\ Commit(c, [cl[c] EXCEPT !.selectedPiece = kind], NoUpdate,
              [EvIn("palette", c, "select") EXCEPT !.piece = Piece(kind, c = "white")])
    /\ UNCHANGED <<mounted, cont, loads, savedSetups, loc>>

\* "Cancel" next to the selected board piece: setSelectedBoardPosition(null)
CancelSelection(c) ==
    /\ SetupPanel(c)
    /\ cl[c].selectedBoardPosition # NoPos
    /\ Commit(c, [cl[c] EXCEPT !.selectedBoardPosition = NoPos], NoUpdate,
              EvIn("cancel", c, "deselect"))
    /\ UNCHANGED <<mounted, cont, loads, savedSetups, loc>>

handleDeleteSelectedPiece(c, st) ==
    LET piece == At(st.board, st.selectedBoardPosition)
        refund == PIECE_COSTS[piece.type]
        newBoard == Put(st.board, st.selectedBoardPosition, Null)
    IN  IF /\ st.selectedBoardPosition # NoPos
           /\ st.gamePhase = "SETUP"
           /\ c = st.currentPlayerTurn
           /\ piece # Null
           /\ piece.type # "KING"
        THEN [st |-> [SetBudget(st, c, Budget(st, c) + refund)
                        EXCEPT !.board = newBoard,
                               !.selectedBoardPosition = NoPos],
              upd |-> [x \in {"board_state", BudgetColumn(c)} |->
                          IF x = "board_state" THEN newBoard
                          ELSE Budget(st, c) + refund],
              e |-> [EvIn("delete", c, "removed")
                        EXCEPT !.pos = st.selectedBoardPosition,
                               !.piece = piece]]
        ELSE [st |-> st, upd |-> NoUpdate, e |-> EvIn("delete", c, "nothing")]

\* the Delete button is rendered for a selected piece that is no King
DeleteSelectedPiece(c) ==
    /\ SetupPanel(c)
    /\ cl[c].selectedBoardPosition # NoPos
    /\ At(cl[c].board, cl[c].selectedBoardPosition).type # "KING"
    /\ LET r == handleDeleteSelectedPiece(c, cl[c])
       IN  Commit(c, r.st, r.upd, r.e)
    /\ UNCHANGED <<mounted, cont, loads, savedSetups, loc>>

\* the board without the pieces of one colour
WithoutSide(board, isWhite) ==
    [p \in {q \in DOMAIN board : board[q].isWhite # isWhite} |-> board[p]]

backRowPieces ==
    <<"ROOK", "KNIGHT", "BISHOP", "QUEEN", "KING", "BISHOP", "KNIGHT", "ROOK">>

ClassicBoard(board, isWhite) ==
    LET backRow == IF isWhite THEN 7 ELSE 0
        frontRow == IF isWhite THEN 6 ELSE 1
        rest == WithoutSide(board, isWhite)
    IN  [p \in DOMAIN rest \cup {q \in Pos : q[1] \in {backRow, frontRow}} |->
            IF p[1] = backRow THEN Piece(backRowPieces[p[2] + 1], isWhite)
            ELSE IF p[1] = frontRow THEN Piece("PAWN", isWhite)
            ELSE rest[p]]

ClassicCost ==
    8 * PIECE_COSTS["PAWN"] + 2 * PIECE_COSTS["ROOK"]
        + 2 * PIECE_COSTS["KNIGHT"] + 2 * PIECE_COSTS["BISHOP"]
        + PIECE_COSTS["QUEEN"]

\* a preset: the board and the budget replace the player's own
Preset(c, st, newBoard, budget, e) ==
    IF c # st.currentPlayerTurn
    THEN [st |-> st, upd |-> NoUpdate, e |-> [e EXCEPT !.what = "nothing"]]
    ELSE [st |-> [SetBudget(st, c, budget)
                    EXCEPT !.board = newBoard,
                           !.selectedPiece = "null",
                           !.selectedBoardPosition = NoPos],
          upd |-> [x \in {"board_state", BudgetColumn(c)} |->
                      IF x = "board_state" THEN newBoard ELSE budget],
          e |-> e]

applyClassicSetup(c, st) ==
    Preset(c, st, ClassicBoard(st.board, c = "white"),
           StartBudget - ClassicCost, EvIn("classic", c, "applied"))

ApplyClassicSetup(c) ==
    /\ SetupPanel(c)
    /\ LET r == applyClassicSetup(c, cl[c])
       IN  Commit(c, r.st, r.upd, r.e)
    /\ UNCHANGED <<mounted, cont, loads, savedSetups, loc>>

SetupNames == {"s"}

\* the player's own pieces, as saveCurrentSetup extracts them
playerBoard(board, isWhite) ==
    [p \in {q \in DOMAIN board : board[q].isWhite = isWhite} |-> board[p]]

saveCurrentSetup(c, st, setups, name) ==
    LET newSetup == [name |-> name,
                     board |-> playerBoard(st.board, c = "white"),
                     budget |-> Budget(st, c),
                     isWhite |-> (c = "white")]
        Differs(x) == x.name # name
    IN  Append(SelectSeq(setups, Differs), newSetup)

SaveCurrentSetup(c, name) ==
    /\ SetupPanel(c)
    /\ savedSetups' = [savedSetups EXCEPT
                         ![c] = saveCurrentSetup(c, cl[c], @, name)]
    /\ ev' = EvIn("save", c, "saved")
    /\ UNCHANGED <<db, cl, mounted, notif, cont, loads, loc>>

\* the saved pieces over the board cleared of the player's own, every
\* saved piece taking the player's colour
LoadedBoard(board, setup, isWhite) ==
    LET rest == WithoutSide(board, isWhite)
    IN  [p \in DOMAIN rest \cup DOMAIN setup.board |->
            IF p \in DOMAIN setup.board
            THEN Piece(setup.board[p].type, isWhite)
            ELSE rest[p]]

loadSavedSetup(c, st, setup) ==
    Preset(c, st, LoadedBoard(st.board, setup, c = "white"), setup.budget,
           EvIn("load", c, "applied"))

LoadSavedSetup(c, i) ==
    /\ SetupPanel(c)
    /\ i \in DOMAIN savedSetups[c]
    /\ LET r == loadSavedSetup(c, cl[c], savedSetups[c][i])
       IN  Commit(c, r.st, r.upd, r.e)
    /\ UNCHANGED <<mounted, cont, loads, savedSetups, loc>>

deleteSavedSetup(setups, name) ==
    LET Differs(x) == x.name # name
    IN  SelectSeq(setups, Differs)

DeleteSavedSetup(c, i) ==
    /\ SetupPanel(c)
    /\ i \in DOMAIN savedSetups[c]
    /\ savedSetups' = [savedSetups EXCEPT
                         ![c] = deleteSavedSetup(@, savedSetups[c][i].name)]
    /\ ev' = EvIn("unsave", c, "deleted")
    /\ UNCHANGED <<db, cl, mounted, notif, cont, loads, loc>>

-----------------------------------------------------------------------------
(* finishSetup, resets, timer                                              *)

SetupCompleteColumn(side) ==
    IF side = "white" THEN "white_setup_complete" ELSE "black_setup_complete"

SetSetupComplete(st, side, b) ==
    IF side = "white" THEN [st EXCEPT !.whiteSetupComplete = b]
    ELSE [st EXCEPT !.blackSetupComplete = b]

SetupComplete(st, side) ==
    IF side = "white" THEN st.whiteSetupComplete ELSE st.blackSetupComplete

\* finishSetup up to its first await: the King check, the player's own
\* flag, the first write.  The rest runs when the write has returned, with
\* the opponent's flag as this render saw it.
FinishSetup(c) ==
    /\ SetupPanel(c)
    /\ IF ~hasKing(cl[c].board, c = "white")
       THEN /\ Commit(c, cl[c], NoUpdate, EvIn("finish", c, "noKing"))
            /\ cont' = cont
       ELSE /\ Commit(c, SetSetupComplete(cl[c], c, TRUE),
                      [x \in {SetupCompleteColumn(c)} |-> TRUE],
                      EvIn("finish", c, "flag"))
            /\ cont' = [cont EXCEPT
                          ![c] = [pending |-> TRUE,
                                  otherComplete |->
                                      SetupComplete(cl[c], Other(c))]]
    /\ UNCHANGED <<mounted, loads, savedSetups, loc>>

\* what finishSetup does after its first await
\* variant: the rest of finishSetup starts the game whatever the opponent did
finishSetupRestAlwaysPlays(c, st, otherComplete) ==
    [st |-> [st EXCEPT !.gamePhase = "PLAYING", !.currentPlayerTurn = "white"],
     upd |-> [status |-> "in_progress", current_turn |-> "white"],
     what |-> "playing"]

finishSetupRest(c, st, otherComplete) ==
    IF otherComplete
    THEN [st |-> [st EXCEPT !.gamePhase = "PLAYING",
                            !.currentPlayerTurn = "white"],
          upd |-> [status |-> "in_progress", current_turn |-> "white"],
          what |-> "playing"]
    ELSE [st |-> [st EXCEPT !.currentPlayerTurn = Other(c)],
          upd |-> [current_turn |-> Other(c)],
          what |-> "handover"]

\* a component that threw is no longer rendered: its state setters do
\* nothing, its pending writes still go out
FinishSetupRest(c) ==
    /\ cont[c].pending
    /\ cont' = [cont EXCEPT ![c] = NoCont]
    /\ LET r == finishSetupRest(c, cl[c], cont[c].otherComplete)
       IN  Commit(c, IF mounted[c] THEN r.st ELSE cl[c], r.upd,
                  EvIn("finishRest", c, r.what))
    /\ UNCHANGED <<mounted, loads, savedSetups, loc>>

resetGame(st) ==
    [st |-> [st EXCEPT !.gamePhase = "SETUP",
                       !.currentPlayerTurn = "white",
                       !.whiteBudget = StartBudget,
                       !.blackBudget = StartBudget,
                       !.board = EmptyBoard,
                       !.whiteSetupComplete = FALSE,
                       !.blackSetupComplete = FALSE,
                       !.selectedPosition = NoPos,
                       !.possibleMoves = NoMoves,
                       !.gameStatus = "",
                       !.moveHistory = << >>,
                       !.selectedPiece = "null",
                       !.selectedBoardPosition = NoPos,
                       !.timeRemainingWhite = st.moveTimeLimit,
                       !.timeRemainingBlack = st.moveTimeLimit],
     upd |-> [board_state |-> EmptyBoard,
              current_turn |-> "white",
              move_history |-> << >>,
              white_budget |-> StartBudget,
              black_budget |-> StartBudget,
              white_setup_complete |-> FALSE,
              black_setup_complete |-> FALSE,
              time_remaining_white |-> st.moveTimeLimit,
              time_remaining_black |-> st.moveTimeLimit,
              status |-> "in_progress"]]

\* "New Game" is rendered in the Playing phase, for either player
ResetGame(c) ==
    /\ Ready(c)
    /\ cl[c].gamePhase = "PLAYING"
    /\ LET r == resetGame(cl[c])
       IN  Commit(c, r.st, r.upd, EvIn("resetGame", c, "reset"))
    /\ UNCHANGED <<mounted, cont, loads, savedSetups, loc>>

resetCurrentPlayerSetup(c, st) ==
    LET w == (c = "white")
        newBoard == Put(WithoutSide(st.board, w), getDefaultKingPosition(w),
                        Piece("KING", w))
    IN  [st |-> [SetBudget(st, c, StartBudget)
                    EXCEPT !.board = newBoard,
                           !.selectedBoardPosition = NoPos,
                           !.selectedPiece = "null"],
         upd |-> [x \in {"board_state", BudgetColumn(c)} |->
                     IF x = "board_state" THEN newBoard ELSE StartBudget]]

ResetCurrentPlayerSetup(c) ==
    /\ SetupPanel(c)
    /\ LET r == resetCurrentPlayerSetup(c, cl[c])
       IN  Commit(c, r.st, r.upd, EvIn("resetSide", c, "reset"))
    /\ UNCHANGED <<mounted, cont, loads, savedSetups, loc>>

\* "Clear Selection", rendered in the Playing phase
ClearSelection(c) ==
    /\ Ready(c)
    /\ cl[c].gamePhase = "PLAYING"
    /\ cl[c].selectedPosition # NoPos
    /\ Commit(c, [cl[c] EXCEPT !.selectedPosition = NoPos,
                               !.possibleMoves = NoMoves],
              NoUpdate, EvIn("clear", c, "unpick"))
    /\ UNCHANGED <<mounted, cont, loads, savedSetups, loc>>

\* variant: the turn end keeps the player
handleTurnEndKeepsTurn(st, isWhiteTurn) ==
    [st |-> [st EXCEPT !.selectedPosition = NoPos, !.possibleMoves = NoMoves],
     upd |-> [current_turn |-> st.currentPlayerTurn]]

\* variant: running out of time forfeits the game
handleTurnEndForfeits(st, isWhiteTurn) ==
    LET nextPlayer == IF isWhiteTurn THEN "black" ELSE "white"
    IN  [st |-> [st EXCEPT !.currentPlayerTurn = nextPlayer,
                           !.gamePhase = "GAME_OVER"],
         upd |-> [current_turn |-> nextPlayer, status |-> "finished"]]

handleTurnEnd(st, isWhiteTurn) ==
    LET nextPlayer == IF isWhiteTurn THEN "black" ELSE "white"
    IN  [st |-> [st EXCEPT !.currentPlayerTurn = nextPlayer,
                           !.selectedPosition = NoPos,
                           !.possibleMoves = NoMoves],
         upd |-> [current_turn |-> nextPlayer,
                  time_remaining_white |->
                      IF isWhiteTurn THEN 0 ELSE st.timeRemainingWhite,
                  time_remaining_black |->
                      IF ~isWhiteTurn THEN 0 ELSE st.timeRemainingBlack]]

TimeRemaining(st, side) ==
    IF side = "white" THEN st.timeRemainingWhite ELSE st.timeRemainingBlack

SetTimeRemaining(st, side, t) ==
    IF side = "white" THEN [st EXCEPT !.timeRemainingWhite = t]
    ELSE [st EXCEPT !.timeRemainingBlack = t]

\* one run of the interval callback of the timer effect
timerTick(st) ==
    LET side == st.currentPlayerTurn
        prev == TimeRemaining(st, side)
        ended == handleTurnEnd(st, side = "white")
    IN  IF prev <= 1
        THEN [st |-> SetTimeRemaining(ended.st, side, st.moveTimeLimit),
              upd |-> ended.upd, what |-> "expired"]
        ELSE [st |-> SetTimeRemaining(st, side, prev - 1),
              upd |-> NoUpdate, what |-> "tick"]

\* the interval runs while the phase is Playing and it is the client's turn
TimerTick(c) ==
    /\ mounted[c]
    /\ cl[c].gamePhase = "PLAYING"
    /\ c = cl[c].currentPlayerTurn
    /\ LET r == timerTick(cl[c])
       IN  Commit(c, r.st, r.upd, EvIn("timer", c, r.what))
    /\ UNCHANGED <<mounted, cont, loads, savedSetups, loc>>

-----------------------------------------------------------------------------
(* The online game: two clients and the row                                *)

NoLocal == [copy |-> "none"]

Init ==
    /\ db \in {NewSession(fog, limit) : fog \in BOOLEAN, limit \in TimeLimits}
    /\ cl = [c \in Sides |-> Gone]
    /\ mounted = [c \in Sides |-> FALSE]
    /\ notif = [c \in Sides |-> FALSE]
    /\ cont = [c \in Sides |-> NoCont]
    /\ loads = [c \in Sides |-> 0]
    /\ savedSetups = [c \in Sides |-> << >>]
    /\ ev = Ev("init", "none", "none")
    /\ loc = NoLocal

\* the squares clicked in the whole-game specification: the square in
\* front of the white King, where White buys a Rook, and the home square of
\* the black King, which that Rook attacks down the e-file
GameSquares == {<<0, 4>>, <<5, 4>>}

Next ==
    \/ \E c \in Sides : Mount(c)
    \/ \E c \in Sides : Deliver(c)
    \/ \E c \in Sides : \E pos \in GameSquares : SquareClick(c, pos)
    \/ \E c \in Sides : \E kind \in Kinds : SelectPiece(c, kind)
    \/ \E c \in Sides : FinishSetup(c)
    \/ \E c \in Sides : FinishSetupRest(c)
    \/ \E c \in Sides : ResetGame(c)
    \/ \E c \in Sides : ClearSelection(c)
    \/ \E c \in Sides : TimerTick(c)

Spec == Init /\ [][Next]_vars

\* Spec with the realtime channel delivering every change it has announced
\* to a subscribed client;  what the players do is left to them
SpecDelivered ==
    Init /\ [][Next]_vars /\ \A c \in Sides : WF_vars(Deliver(c))

-----------------------------------------------------------------------------
(* The setup phase of the online game: one player drafting                 *)

\* the squares clicked while drafting: two of each zone
SetupSquares == {<<0, 4>>, <<2, 4>>, <<5, 4>>, <<7, 4>>}

\* drafts White may have finished with before Black drafts: the default
\* King alone, or with a Rook bought in front of it
WhiteDrafts ==
    {[board |-> Put(EmptyBoard, <<7, 4>>, Piece("KING", TRUE)),
      budget |-> StartBudget],
     [board |-> Put(Put(EmptyBoard, <<7, 4>>, Piece("KING", TRUE)),
                    <<5, 4>>, Piece("ROOK", TRUE)),
      budget |-> StartBudget - PIECE_COSTS["ROOK"]]}

\* the row when White has finished the draft d and handed over to Black
AfterWhiteDraft(row, d) ==
    updateGameSession(row, [board_state |-> d.board,
                            white_budget |-> d.budget,
                            white_setup_complete |-> TRUE,
                            current_turn |-> "black"])

\* the row when White has drafted a Rook on e3, both sides have finished,
\* and White has opened the game with the Rook to e6, inside Black's zone
AfterWhiteMove(row) ==
    LET drafted == Put(Put(Put(EmptyBoard, <<7, 4>>, Piece("KING", TRUE)),
                           <<5, 4>>, Piece("ROOK", TRUE)),
                       <<0, 4>>, Piece("KING", FALSE))
    IN  updateGameSession(row,
            [board_state |-> Put(Put(drafted, <<5, 4>>, Null),
                                 <<2, 4>>, Piece("ROOK", TRUE)),
             white_budget |-> StartBudget - PIECE_COSTS["ROOK"],
             white_setup_complete |-> TRUE,
             black_setup_complete |-> TRUE,
             status |-> "in_progress",
             current_turn |-> "black",
             move_history |-> <<moveNotation(<<5, 4>>, <<2, 4>>)>>])

\* localStorage of a browser whose user saved the lone King of an earlier
\* game played as White
EarlierSetups ==
    <<[name |-> "s",
       board |-> Put(EmptyBoard, getDefaultKingPosition(TRUE),
                     Piece("KING", TRUE)),
       budget |-> StartBudget,
       isWhite |-> TRUE]>>

\* one player drafts, the other has closed the page: White on the new
\* session, or Black on a session White has drafted in, or Black coming
\* back to a game that White has opened
InitSetup ==
    /\ \E who \in Sides :
        /\ loads = [c \in Sides |-> IF c = who THEN 0 ELSE MaxLoads]
        /\ db \in IF who = "white"
                  THEN {NewSession(fog, limit) :
                            fog \in BOOLEAN, limit \in TimeLimits}
                  ELSE {AfterWhiteDraft(NewSession(fog, limit), d) :
                            fog \in BOOLEAN, limit \in TimeLimits,
                            d \in WhiteDrafts}
                       \cup {AfterWhiteMove(NewSession(fog, limit)) :
                                fog \in BOOLEAN, limit \in TimeLimits}
    /\ cl = [c \in Sides |-> Gone]
    /\ mounted = [c \in Sides |-> FALSE]
    /\ notif = [c \in Sides |-> FALSE]
    /\ cont = [c \in Sides |-> NoCont]
    /\ savedSetups \in {[c \in Sides |-> << >>],
                        [c \in Sides |-> IF c = "black" THEN EarlierSetups
                                         ELSE << >>]}
    /\ ev = Ev("init", "none", "none")
    /\ loc = NoLocal

NextSetup ==
    \/ \E c \in Sides : Mount(c)
    \/ \E c \in Sides : Deliver(c)
    \/ \E c \in Sides : \E pos \in SetupSquares : SquareClick(c, pos)
    \/ \E c \in Sides : \E kind \in Kinds : SelectPiece(c, kind)
    \/ \E c \in Sides : CancelSelection(c)
    \/ \E c \in Sides : DeleteSelectedPiece(c)
    \/ \E c \in Sides : ApplyClassicSetup(c)
    \/ \E c \in Sides : \E name \in SetupNames : SaveCurrentSetup(c, name)
    \/ \E c \in Sides : \E i \in 1..Cardinality(SetupNames) :
            LoadSavedSetup(c, i)
    \/ \E c \in Sides : \E i \in 1..Cardinality(SetupNames) :
            DeleteSavedSetup(c, i)
    \/ \E c \in Sides : FinishSetup(c)
    \/ \E c \in Sides : FinishSetupRest(c)
    \/ \E c \in Sides : ResetCurrentPlayerSetup(c)

SpecSetup == InitSetup /\ [][NextSetup]_vars

\* a session created with the "No Limit" item of the matchmaking dialog
InitNoLimit ==
    /\ db \in {NewSession(fog, 0) : fog \in BOOLEAN}
    /\ cl = [c \in Sides |-> Gone]
    /\ mounted = [c \in Sides |-> FALSE]
    /\ notif = [c \in Sides |-> FALSE]
    /\ cont = [c \in Sides |-> NoCont]
    /\ loads = [c \in Sides |-> 0]
    /\ savedSetups = [c \in Sides |-> << >>]
    /\ ev = Ev("init", "none", "none")
    /\ loc = NoLocal

SpecNoLimit == InitNoLimit /\ [][Next]_vars

-----------------------------------------------------------------------------
(* The hot-seat copy with fog of war and one move timer (unnamed/part_002). *)
(* Both players share one browser;  its state is the record loc.           *)

SideOf(isWhite) == IF isWhite THEN "white" ELSE "black"

\* the slider offers the limits in steps;  the model counts in timer ticks
HsLimits == {1, TimeLimit}

HsInit ==
    [copy |-> "hotseat", gamePhase |-> "GAME_SETUP", currentPlayer |-> TRUE,
     whiteBudget |-> StartBudget, blackBudget |-> StartBudget,
     board |-> EmptyBoard,
     selectedPiece |-> "null", selectedBoardPosition |-> NoPos,
     whiteSetupComplete |-> FALSE, blackSetupComplete |-> FALSE,
     fogOfWarEnabled |-> FALSE,
     moveTimeLimit |-> TimeLimit, timeRemaining |-> TimeLimit,
     selectedPosition |-> NoPos, possibleMoves |-> NoMoves,
     gameStatus |-> "", moveHistory |-> << >>]

HsEv(op, what) ==
    [Ev(op, SideOf(loc.currentPlayer), what)
        EXCEPT !.turn = SideOf(loc.currentPlayer), !.phase = loc.gamePhase]

\* a handler of the hot-seat copy ends: its state updates are rendered and
\* the effects whose dependencies changed run: the default King of the
\* player now drafting, and the timer reset of a new turn
HsCommit(st, e) ==
    LET turned == \/ st.currentPlayer # loc.currentPlayer
                  \/ st.gamePhase # loc.gamePhase
        retimed == turned \/ st.moveTimeLimit # loc.moveTimeLimit
        st1 == IF /\ turned
                  /\ st.gamePhase = "SETUP"
                  /\ ~hasKing(st.board, st.currentPlayer)
               THEN [st EXCEPT !.board =
                        Put(@, getDefaultKingPosition(st.currentPlayer),
                            Piece("KING", st.currentPlayer))]
               ELSE st
        st2 == IF retimed /\ st.gamePhase = "PLAYING"
               THEN [st1 EXCEPT !.timeRemaining = st.moveTimeLimit]
               ELSE st1
    IN  /\ loc' = st2
        /\ ev' = e
        /\ UNCHANGED <<db, cl, mounted, notif, cont, loads, savedSetups>>

\* the options screen: fog switch, time-limit slider, Start Game
HsSetOptions(fog, limit) ==
    /\ loc.copy = "hotseat"
    /\ loc.gamePhase = "GAME_SETUP"
    /\ HsCommit([loc EXCEPT !.fogOfWarEnabled = fog, !.moveTimeLimit = limit],
                HsEv("options", "set"))

startGameSetup ==
    /\ loc.copy = "hotseat"
    /\ loc.gamePhase = "GAME_SETUP"
    /\ HsCommit([loc EXCEPT !.gamePhase = "SETUP"], HsEv("start", "setup"))

HsSetupClick(st, pos) ==
    LET w == st.currentPlayer
        piece == At(st.board, pos)
        canPlacePiece ==
            st.selectedPiece # "null" /\ piece = Null /\ InZone(w, pos)
        canSelectPiece ==
            piece # Null /\ piece.isWhite = w /\ InZone(w, pos)
        selectedSquarePiece == At(st.board, st.selectedBoardPosition)
        refund == IF piece # Null /\ piece.isWhite = w
                  THEN PIECE_COSTS[piece.type] ELSE 0
        currentBudget == Budget(st, SideOf(w))
        cost == PIECE_COSTS[st.selectedPiece]
    IN  IF st.selectedBoardPosition # NoPos
        THEN IF /\ selectedSquarePiece # Null
                /\ InZone(w, pos)
                /\ (piece = Null \/ piece.isWhite # w)
             THEN [st |-> [SetBudget(st, SideOf(w), currentBudget + refund)
                             EXCEPT !.board =
                                 Put(Put(st.board, st.selectedBoardPosition,
                                         Null), pos, selectedSquarePiece),
                                    !.selectedBoardPosition = NoPos],
                   e |-> [HsEv("click", "relocate")
                             EXCEPT !.pos = pos,
                                    !.from = st.selectedBoardPosition,
                                    !.piece = selectedSquarePiece,
                                    !.captured = piece]]
             ELSE [st |-> [st EXCEPT !.selectedBoardPosition = NoPos],
                   e |-> [HsEv("click", "deselect") EXCEPT !.pos = pos]]
        ELSE IF canPlacePiece
        THEN IF currentBudget >= cost
             THEN [st |-> [SetBudget(st, SideOf(w), currentBudget - cost)
                             EXCEPT !.board =
                                 Put(st.board, pos, Piece(st.selectedPiece, w)),
                                    !.selectedPiece = "null"],
                   e |-> [HsEv("click", "place")
                             EXCEPT !.pos = pos,
                                    !.piece = Piece(st.selectedPiece, w)]]
             ELSE [st |-> st,
                   e |-> [HsEv("click", "unaffordable") EXCEPT !.pos = pos]]
        ELSE IF canSelectPiece
        THEN [st |-> [st EXCEPT !.selectedBoardPosition = pos,
                                !.selectedPiece = "null"],
              e |-> [HsEv("click", "select") EXCEPT !.pos = pos]]
        ELSE [st |-> [st EXCEPT !.selectedBoardPosition = NoPos,
                                !.selectedPiece = "null"],
              e |-> [HsEv("click", "deselect") EXCEPT !.pos = pos]]

\* checkGameStatus of this copy: it is handed the player who moves next
\* and only sets the status text
HsCheckGameStatus(board, currentPlayer) ==
    IF currentPlayer /\ ~hasKing(board, TRUE)
    THEN "Black wins! White king captured."
    ELSE IF ~currentPlayer /\ ~hasKing(board, FALSE)
    THEN "White wins! Black king captured."
    ELSE ""

HsPlayClick(st, pos) ==
    LET piece == At(st.board, pos)
        isVisibleMove == pos \in st.possibleMoves.visibleMoves
        isFogMoveTarget == pos \in st.possibleMoves.fogMoves
        movingPiece == At(st.board, st.selectedPosition)
        finalPosition ==
            IF isFogMoveTarget /\ st.fogOfWarEnabled
            THEN executeFogMove(st.board, st.selectedPosition, pos, movingPiece)
            ELSE pos
        newBoard == Put(Put(st.board, st.selectedPosition, Null),
                        finalPosition, movingPiece)
        legalNow == calculatePossibleMoves(st.fogOfWarEnabled, st.board,
                                           st.selectedPosition, movingPiece)
    IN  IF isVisibleMove \/ isFogMoveTarget
        THEN IF st.selectedPosition # NoPos
             THEN [st |-> [st EXCEPT
                             !.board = newBoard,
                             !.moveHistory =
                                 Append(@, moveNotation(st.selectedPosition,
                                                        finalPosition)),
                             !.currentPlayer = ~st.currentPlayer,
                             !.selectedPosition = NoPos,
                             !.possibleMoves = NoMoves,
                             !.gameStatus =
                                 HsCheckGameStatus(newBoard, ~st.currentPlayer)],
                   e |-> [HsEv("click", "move")
                             EXCEPT !.pos = finalPosition,
                                    !.from = st.selectedPosition,
                                    !.target = pos,
                                    !.piece = movingPiece,
                                    !.captured = At(st.board, finalPosition),
                                    !.legal = pos \in (legalNow.visibleMoves
                                                    \cup legalNow.fogMoves)]]
             ELSE [st |-> st,
                   e |-> [HsEv("click", "nothing") EXCEPT !.pos = pos]]
        ELSE IF piece # Null /\ piece.isWhite = st.currentPlayer
        THEN [st |-> [st EXCEPT
                        !.selectedPosition = pos,
                        !.possibleMoves =
                            calculatePossibleMoves(st.fogOfWarEnabled,
                                                   st.board, pos, piece)],
              e |-> [HsEv("click", "pick") EXCEPT !.pos = pos]]
        ELSE [st |-> [st EXCEPT !.selectedPosition = NoPos,
                                !.possibleMoves = NoMoves],
              e |-> [HsEv("click", "unpick") EXCEPT !.pos = pos]]

\* moves of one game in the model
MaxMoves == 2

HsSquareClick(pos) ==
    /\ loc.copy = "hotseat"
    /\ loc.gamePhase \in {"SETUP", "PLAYING"}
    /\ Len(loc.moveHistory) < MaxMoves
    /\ LET r == IF loc.gamePhase = "SETUP" THEN HsSetupClick(loc, pos)
                ELSE HsPlayClick(loc, pos)
       IN  HsCommit(r.st, r.e)

\* palette button of a piece the drafting player can afford
HsSelectPiece(kind) ==
    /\ loc.copy = "hotseat"
    /\ loc.gamePhase = "SETUP"
    /\ Budget(loc, SideOf(loc.currentPlayer)) >= PIECE_COSTS[kind]
    /\ HsCommit([loc EXCEPT !.selectedPiece = kind],
                [HsEv("palette", "selected") EXCEPT !.piece =
                    Piece(kind, loc.currentPlayer)])

HsCancelSelection ==
    /\ loc.copy = "hotseat"
    /\ loc.gamePhase = "SETUP"
    /\ loc.selectedBoardPosition # NoPos
    /\ HsCommit([loc EXCEPT !.selectedBoardPosition = NoPos],
                HsEv("cancel", "deselect"))

HsDeleteSelectedPiece ==
    /\ loc.copy = "hotseat"
    /\ loc.gamePhase = "SETUP"
    /\ loc.selectedBoardPosition # NoPos
    /\ LET piece == At(loc.board, loc.selectedBoardPosition)
           side == SideOf(loc.currentPlayer)
       IN  /\ piece.type # "KING"
           /\ IF piece # Null
              THEN HsCommit([SetBudget(loc, side, Budget(loc, side)
                                                   + PIECE_COSTS[piece.type])
                               EXCEPT !.board = Put(@, loc.selectedBoardPosition,
                                                    Null),
                                      !.selectedBoardPosition = NoPos],
                            [HsEv("delete", "removed")
                               EXCEPT !.pos = loc.selectedBoardPosition,
                                      !.piece = piece])
              ELSE HsCommit(loc, HsEv("delete", "nothing"))

HsFinishSetup ==
    /\ loc.copy = "hotseat"
    /\ loc.gamePhase = "SETUP"
    /\ LET w == loc.currentPlayer
           otherComplete == IF w THEN loc.blackSetupComplete
                            ELSE loc.whiteSetupComplete
           flagged == IF w THEN [loc EXCEPT !.whiteSetupComplete = TRUE]
                      ELSE [loc EXCEPT !.blackSetupComplete = TRUE]
       IN  IF ~hasKing(loc.board, w)
           THEN HsCommit(loc, HsEv("finish", "noKing"))
           ELSE IF otherComplete
           THEN HsCommit([flagged EXCEPT !.gamePhase = "PLAYING",
                                         !.currentPlayer = TRUE,
                                         !.timeRemaining = loc.moveTimeLimit],
                         HsEv("finish", "playing"))
           ELSE HsCommit([flagged EXCEPT !.currentPlayer = ~w],
                         HsEv("finish", "handover"))

HsResetGame ==
    /\ loc.copy = "hotseat"
    /\ loc.gamePhase = "PLAYING"
    /\ HsCommit([HsInit EXCEPT !.fogOfWarEnabled = loc.fogOfWarEnabled,
                               !.moveTimeLimit = loc.moveTimeLimit,
                               !.timeRemaining = loc.moveTimeLimit],
                HsEv("reset", "game"))

resetCurrentPlayer ==
    /\ loc.copy = "hotseat"
    /\ loc.gamePhase = "SETUP"
    /\ LET w == loc.currentPlayer
           newBoard == Put(WithoutSide(loc.board, w),
                           getDefaultKingPosition(w), Piece("KING", w))
       IN  HsCommit([SetBudget(loc, SideOf(w), StartBudget)
                        EXCEPT !.board = newBoard,
                               !.selectedBoardPosition = NoPos,
                               !.selectedPiece = "null"],
                    HsEv("reset", "side"))

HsClearSelection ==
    /\ loc.copy = "hotseat"
    /\ loc.gamePhase = "PLAYING"
    /\ HsCommit([loc EXCEPT !.selectedPosition = NoPos,
                            !.possibleMoves = NoMoves],
                HsEv("clear", "unpick"))

\* one second of the interval of the timer effect
HsTimerTick ==
    /\ loc.copy = "hotseat"
    /\ loc.gamePhase = "PLAYING"
    /\ loc.timeRemaining > 0
    /\ IF loc.timeRemaining <= 1
       THEN HsCommit([loc EXCEPT !.currentPlayer = ~loc.currentPlayer,
                                 !.timeRemaining = loc.moveTimeLimit],
                     HsEv("timer", "expired"))
       ELSE HsCommit([loc EXCEPT !.timeRemaining = @ - 1],
                     HsEv("timer", "tick"))

InitLocal ==
    /\ db = NewSession(FALSE, TimeLimit)
    /\ cl = [c \in Sides |-> Gone]
    /\ mounted = [c \in Sides |-> FALSE]
    /\ notif = [c \in Sides |-> FALSE]
    /\ cont = [c \in Sides |-> NoCont]
    /\ loads = [c \in Sides |-> 0]
    /\ savedSetups = [c \in Sides |-> << >>]
    /\ ev = Ev("init", "none", "none")
    /\ loc = HsInit

NextLocal ==
    \/ \E fog \in BOOLEAN, limit \in HsLimits : HsSetOptions(fog, limit)
    \/ startGameSetup
    \/ \E pos \in SetupSquares : HsSquareClick(pos)
    \/ \E kind \in Kinds : HsSelectPiece(kind)
    \/ HsCancelSelection
    \/ HsDeleteSelectedPiece
    \/ HsFinishSetup
    \/ HsResetGame
    \/ resetCurrentPlayer
    \/ HsClearSelection
    \/ HsTimerTick

SpecLocal == InitLocal /\ [][NextLocal]_vars

-----------------------------------------------------------------------------
(* The first hot-seat copy (unnamed/part_001, second component): the King  *)
(* is bought from the palette at cost 0, pieces are only placed.           *)

V1Init ==
    [copy |-> "v1", gamePhase |-> "SETUP", currentPlayer |-> TRUE,
     whiteBudget |-> StartBudget, blackBudget |-> StartBudget,
     board |-> EmptyBoard, selectedPiece |-> "null",
     whiteSetupComplete |-> FALSE, blackSetupComplete |-> FALSE,
     selectedPosition |-> NoPos, possibleMoves |-> {},
     gameStatus |-> "", moveHistory |-> << >>]

\* a handler of this copy ends;  the copy has no effects
V1Commit(st, e) ==
    /\ loc' = st
    /\ ev' = e
    /\ UNCHANGED <<db, cl, mounted, notif, cont, loads, savedSetups>>

\* this copy has no fog: its move list is the visible list of the others
V1calculatePossibleMoves(board, position, piece) ==
    calculatePossibleMoves(FALSE, board, position, piece).visibleMoves

\* variant: the click places whatever the palette holds
V1SetupClickAnyKing(st, pos) ==
    LET w == st.currentPlayer
        cost == PIECE_COSTS[st.selectedPiece]
    IN  IF st.selectedPiece # "null" /\ At(st.board, pos) = Null
           /\ InZone(w, pos) /\ Budget(st, SideOf(w)) >= cost
        THEN [st |-> [SetBudget(st, SideOf(w), Budget(st, SideOf(w)) - cost)
                        EXCEPT !.board =
                                  Put(st.board, pos, Piece(st.selectedPiece, w)),
                               !.selectedPiece = "null"],
              e |-> [HsEv("click", "place") EXCEPT !.pos = pos]]
        ELSE [st |-> st, e |-> [HsEv("click", "nothing") EXCEPT !.pos = pos]]

V1SetupClick(st, pos) ==
    LET w == st.currentPlayer
        piece == At(st.board, pos)
        canPlacePiece ==
            st.selectedPiece # "null" /\ piece = Null /\ InZone(w, pos)
        currentBudget == Budget(st, SideOf(w))
        cost == PIECE_COSTS[st.selectedPiece]
    IN  IF ~canPlacePiece
        THEN [st |-> st, e |-> [HsEv("click", "nothing") EXCEPT !.pos = pos]]
        ELSE IF st.selectedPiece = "KING" /\ hasKing(st.board, w)
        THEN [st |-> st, e |-> [HsEv("click", "secondKing") EXCEPT !.pos = pos]]
        ELSE IF currentBudget >= cost
        THEN [st |-> [SetBudget(st, SideOf(w), currentBudget - cost)
                        EXCEPT !.board =
                                  Put(st.board, pos, Piece(st.selectedPiece, w)),
                               !.selectedPiece = "null"],
              e |-> [HsEv("click", "place")
                        EXCEPT !.pos = pos,
                               !.piece = Piece(st.selectedPiece, w)]]
        ELSE [st |-> st,
              e |-> [HsEv("click", "unaffordable") EXCEPT !.pos = pos]]

V1PlayClick(st, pos) ==
    LET piece == At(st.board, pos)
        movingPiece == At(st.board, st.selectedPosition)
        newBoard == Put(Put(st.board, st.selectedPosition, Null),
                        pos, movingPiece)
    IN  IF pos \in st.possibleMoves
        THEN IF st.selectedPosition # NoPos
             THEN [st |-> [st EXCEPT
                             !.board = newBoard,
                             !.moveHistory =
                                 Append(@, moveNotation(st.selectedPosition,
                                                        pos)),
                             !.currentPlayer = ~st.currentPlayer,
                             !.selectedPosition = NoPos,
                             !.possibleMoves = {},
                             !.gameStatus =
                                 HsCheckGameStatus(newBoard, ~st.currentPlayer)],
                   e |-> [HsEv("click", "move")
                             EXCEPT !.pos = pos,
                                    !.from = st.selectedPosition,
                                    !.piece = movingPiece,
                                    !.captured = piece,
                                    !.legal = TRUE]]
             ELSE [st |-> st,
                   e |-> [HsEv("click", "nothing") EXCEPT !.pos = pos]]
        ELSE IF piece # Null /\ piece.isWhite = st.currentPlayer
        THEN [st |-> [st EXCEPT
                        !.selectedPosition = pos,
                        !.possibleMoves =
                            V1calculatePossibleMoves(st.board, pos, piece)],
              e |-> [HsEv("click", "pick") EXCEPT !.pos = pos]]
        ELSE [st |-> [st EXCEPT !.selectedPosition = NoPos,
                                !.possibleMoves = {}],
              e |-> [HsEv("click", "unpick") EXCEPT !.pos = pos]]

V1SquareClick(pos) ==
    /\ loc.copy = "v1"
    /\ Len(loc.moveHistory) < MaxMoves
    /\ LET r == IF loc.gamePhase = "SETUP" THEN V1SetupClick(loc, pos)
                ELSE V1PlayClick(loc, pos)
       IN  V1Commit(r.st, r.e)

\* the palette of this copy lists every piece type, the King included
V1Kinds == {"KING", "ROOK"}

V1SelectPiece(kind) ==
    /\ loc.copy = "v1"
    /\ loc.gamePhase = "SETUP"
    /\ Budget(loc, SideOf(loc.currentPlayer)) >= PIECE_COSTS[kind]
    /\ V1Commit([loc EXCEPT !.selectedPiece = kind],
                [HsEv("palette", "selected") EXCEPT !.piece =
                    Piece(kind, loc.currentPlayer)])

V1FinishSetup ==
    /\ loc.copy = "v1"
    /\ loc.gamePhase = "SETUP"
    /\ LET w == loc.currentPlayer
           otherComplete == IF w THEN loc.blackSetupComplete
                            ELSE loc.whiteSetupComplete
           flagged == IF w THEN [loc EXCEPT !.whiteSetupComplete = TRUE]
                      ELSE [loc EXCEPT !.blackSetupComplete = TRUE]
       IN  IF ~hasKing(loc.board, w)
           THEN V1Commit(loc, HsEv("finish", "noKing"))
           ELSE IF otherComplete
           THEN V1Commit([flagged EXCEPT !.gamePhase = "PLAYING",
                                         !.currentPlayer = TRUE],
                         HsEv("finish", "playing"))
           ELSE V1Commit([flagged EXCEPT !.currentPlayer = ~w],
                         HsEv("finish", "handover"))

V1ResetGame ==
    /\ loc.copy = "v1"
    /\ loc.gamePhase = "PLAYING"
    /\ V1Commit(V1Init, HsEv("reset", "game"))

V1ResetCurrentPlayer ==
    /\ loc.copy = "v1"
    /\ loc.gamePhase = "SETUP"
    /\ V1Commit([SetBudget(loc, SideOf(loc.currentPlayer), StartBudget)
                    EXCEPT !.board = WithoutSide(@, loc.currentPlayer)],
                HsEv("reset", "side"))

V1ClearSelection ==
    /\ loc.copy = "v1"
    /\ loc.gamePhase = "PLAYING"
    /\ V1Commit([loc EXCEPT !.selectedPosition = NoPos, !.possibleMoves = {}],
                HsEv("clear", "unpick"))

\* nobody opens the online game
InitV1 ==
    /\ db = NewSession(FALSE, TimeLimit)
    /\ cl = [c \in Sides |-> Gone]
    /\ mounted = [c \in Sides |-> FALSE]
    /\ notif = [c \in Sides |-> FALSE]
    /\ cont = [c \in Sides |-> NoCont]
    /\ loads = [c \in Sides |-> MaxLoads]
    /\ savedSetups = [c \in Sides |-> << >>]
    /\ ev = Ev("init", "none", "none")
    /\ loc = V1Init

NextV1 ==
    \/ \E pos \in SetupSquares : V1SquareClick(pos)
    \/ \E kind \in V1Kinds : V1SelectPiece(kind)
    \/ V1FinishSetup
    \/ V1ResetGame
    \/ V1ResetCurrentPlayer
    \/ V1ClearSelection

\* the copies that draft Kings, side by side: the setup of the online game
\* or a game of the first hot-seat copy
NextKings == NextSetup \/ NextV1

InitKings == InitSetup \/ InitV1

SpecKings == InitKings /\ [][NextKings]_vars

-----------------------------------------------------------------------------
(* The Android copy (MainActivity.kt): the state of the first hot-seat     *)
(* copy, a palette without the King, and the same move rules.              *)

KtInit == [V1Init EXCEPT !.copy = "kt"]

\* the clickable of a square; its Playing branch is that of part_001
KtSquareClick(pos) ==
    /\ loc.copy = "kt"
    /\ Len(loc.moveHistory) < MaxMoves
    /\ LET w == loc.currentPlayer
           piece == At(loc.board, pos)
           canPlacePiece ==
               /\ loc.gamePhase = "SETUP"
               /\ loc.selectedPiece # "null"
               /\ piece = Null
               /\ InZone(w, pos)
           currentBudget == Budget(loc, SideOf(w))
           cost == PIECE_COSTS[loc.selectedPiece]
           r == V1PlayClick(loc, pos)
       IN  IF loc.gamePhase = "SETUP" /\ canPlacePiece
           THEN IF currentBudget >= cost
                THEN V1Commit(
                        [SetBudget(loc, SideOf(w), currentBudget - cost)
                            EXCEPT !.board =
                                      Put(@, pos, Piece(loc.selectedPiece, w)),
                                   !.selectedPiece = "null"],
                        [HsEv("click", "place")
                            EXCEPT !.pos = pos,
                                   !.piece = Piece(loc.selectedPiece, w)])
                ELSE V1Commit(loc, [HsEv("click", "unaffordable")
                                      EXCEPT !.pos = pos])
           ELSE IF loc.gamePhase = "PLAYING" THEN V1Commit(r.st, r.e)
           ELSE V1Commit(loc, [HsEv("click", "nothing") EXCEPT !.pos = pos])

\* palette card of a piece the drafting player can afford; no King card
KtSelectPiece(kind) ==
    /\ loc.copy = "kt"
    /\ loc.gamePhase = "SETUP"
    /\ kind # "KING"
    /\ Budget(loc, SideOf(loc.currentPlayer)) >= PIECE_COSTS[kind]
    /\ V1Commit([loc EXCEPT !.selectedPiece = kind],
                [HsEv("palette", "selected") EXCEPT !.piece =
                    Piece(kind, loc.currentPlayer)])

\* the Finish Setup button
KtFinishSetup ==
    /\ loc.copy = "kt"
    /\ loc.gamePhase = "SETUP"
    /\ LET w == loc.currentPlayer
           otherComplete == IF w THEN loc.blackSetupComplete
                            ELSE loc.whiteSetupComplete
           flagged == IF w THEN [loc EXCEPT !.whiteSetupComplete = TRUE]
                      ELSE [loc EXCEPT !.blackSetupComplete = TRUE]
       IN  IF otherComplete
           THEN V1Commit([flagged EXCEPT !.gamePhase = "PLAYING",
                                         !.currentPlayer = TRUE],
                         HsEv("finish", "playing"))
           ELSE V1Commit([flagged EXCEPT !.currentPlayer = ~w],
                         HsEv("finish", "handover"))

\* the Reset button
KtReset ==
    /\ loc.copy = "kt"
    /\ loc.gamePhase = "SETUP"
    /\ V1Commit([SetBudget(loc, SideOf(loc.currentPlayer), StartBudget)
                    EXCEPT !.board = WithoutSide(@, loc.currentPlayer)],
                HsEv("reset", "side"))

KtClearSelection ==
    /\ loc.copy = "kt"
    /\ loc.gamePhase = "PLAYING"
    /\ V1Commit([loc EXCEPT !.selectedPosition = NoPos, !.possibleMoves = {}],
                HsEv("clear", "unpick"))

KtNewGame ==
    /\ loc.copy = "kt"
    /\ loc.gamePhase = "PLAYING"
    /\ V1Commit(KtInit, HsEv("reset", "game"))

InitKt ==
    /\ db = NewSession(FALSE, TimeLimit)
    /\ cl = [c \in Sides |-> Gone]
    /\ mounted = [c \in Sides |-> FALSE]
    /\ notif = [c \in Sides |-> FALSE]
    /\ cont = [c \in Sides |-> NoCont]
    /\ loads = [c \in Sides |-> MaxLoads]
    /\ savedSetups = [c \in Sides |-> << >>]
    /\ ev = Ev("init", "none", "none")
    /\ loc = KtInit

NextKt ==
    \/ \E pos \in SetupSquares : KtSquareClick(pos)
    \/ \E kind \in Kinds : KtSelectPiece(kind)
    \/ KtFinishSetup
    \/ KtReset
    \/ KtClearSelection
    \/ KtNewGame

SpecKt == InitKt /\ [][NextKt]_vars

-----------------------------------------------------------------------------
(* The hot-seat copy (unnamed/part_002) in Playing, from given drafts       *)

\* the pieces drafted next to the Kings: White's on (5,3), Black's on (1,3)
WhiteDraftKinds == {"ROOK", "QUEEN", "KNIGHT"}

BlackDraftKinds == {"PAWN", "ROOK"}

DraftBoard(wk, bk) ==
    Put(Put(Put(Put(EmptyBoard, getDefaultKingPosition(TRUE),
                    Piece("KING", TRUE)),
                getDefaultKingPosition(FALSE), Piece("KING", FALSE)),
            <<5, 3>>, Piece(wk, TRUE)),
        <<1, 3>>, Piece(bk, FALSE))

\* the state once both players have drafted and pressed Finish Setup
HsDrafted(fog, wk, bk) ==
    [HsInit EXCEPT !.gamePhase = "PLAYING",
                   !.fogOfWarEnabled = fog,
                   !.board = DraftBoard(wk, bk),
                   !.whiteBudget = StartBudget - PIECE_COSTS[wk],
                   !.blackBudget = StartBudget - PIECE_COSTS[bk],
                   !.whiteSetupComplete = TRUE,
                   !.blackSetupComplete = TRUE]

\* a second draft: White's Rook on (5,3) and a Pawn on (6,7), Black's Bishop
\* on (1,1), whose diagonal crosses the Rook's row at (5,5), and a Pawn on
\* (2,4), next to the Rook's column
FlankBoard ==
    Put(Put(Put(Put(Put(Put(EmptyBoard, getDefaultKingPosition(TRUE),
                            Piece("KING", TRUE)),
                        getDefaultKingPosition(FALSE), Piece("KING", FALSE)),
                    <<5, 3>>, Piece("ROOK", TRUE)),
                <<6, 7>>, Piece("PAWN", TRUE)),
            <<1, 1>>, Piece("BISHOP", FALSE)),
        <<2, 4>>, Piece("PAWN", FALSE))

HsFlankDrafted(fog) ==
    [HsInit EXCEPT !.gamePhase = "PLAYING",
                   !.fogOfWarEnabled = fog,
                   !.board = FlankBoard,
                   !.whiteBudget = StartBudget - PIECE_COSTS["ROOK"]
                                               - PIECE_COSTS["PAWN"],
                   !.blackBudget = StartBudget - PIECE_COSTS["BISHOP"]
                                               - PIECE_COSTS["PAWN"],
                   !.whiteSetupComplete = TRUE,
                   !.blackSetupComplete = TRUE]

\* the squares clicked: the column of the drafted pieces, the squares of the
\* Bishop and of Black's Pawn, and two squares of the Rook's row
PlaySquares ==
    {<<r, 3>> : r \in Rows} \cup {<<1, 1>>, <<2, 4>>, <<5, 5>>, <<5, 6>>}

InitPlay ==
    /\ db = NewSession(FALSE, TimeLimit)
    /\ cl = [c \in Sides |-> Gone]
    /\ mounted = [c \in Sides |-> FALSE]
    /\ notif = [c \in Sides |-> FALSE]
    /\ cont = [c \in Sides |-> NoCont]
    /\ loads = [c \in Sides |-> MaxLoads]
    /\ savedSetups = [c \in Sides |-> << >>]
    /\ ev = Ev("init", "none", "none")
    /\ loc \in {HsDrafted(fog, wk, bk) :
                    fog \in BOOLEAN, wk \in WhiteDraftKinds,
                    bk \in BlackDraftKinds}
               \cup {HsFlankDrafted(fog) : fog \in BOOLEAN}

NextPlay ==
    \/ \E pos \in PlaySquares : HsSquareClick(pos)
    \/ HsTimerTick

SpecPlay == InitPlay /\ [][NextPlay]_vars

-----------------------------------------------------------------------------
(* Visibility and move generation of the online component on given boards  *)

\* squares the boards are built on: a corner, the centre and a neighbour of
\* it, an edge, and one start row of each colour's pawns
MovesSquares == {<<0, 0>>, <<4, 4>>, <<3, 4>>, <<7, 4>>, <<6, 7>>, <<1, 3>>}

AllPieces == {Piece(t, w) : t \in PieceTypes, w \in BOOLEAN}

\* the second piece of a board
Blockers == {Piece("PAWN", TRUE), Piece("ROOK", FALSE)}

OnePiece(p, piece) == Put(EmptyBoard, p, piece)

\* a piece alone on any square of the board
SoloBoards ==
    {OnePiece(p, Piece(t, TRUE)) :
        p \in Pos, t \in {"ROOK", "KNIGHT", "BISHOP", "KING"}}

\* a pawn on square p with up to two pieces on the squares in front of it
PawnBoards(p, w, front) ==
    {Put(Put(OnePiece(p, Piece("PAWN", w)), q1, y1), q2, y2) :
        q1 \in front, q2 \in front, y1 \in Blockers, y2 \in Blockers}

MovesBoards ==
    {OnePiece(p, x) : p \in MovesSquares, x \in AllPieces}
        \cup {Put(OnePiece(q, y), p, x) :
                p \in MovesSquares, q \in MovesSquares,
                x \in AllPieces, y \in Blockers}
        \cup SoloBoards
        \cup PawnBoards(<<6, 7>>, TRUE, {<<5, 7>>, <<4, 7>>, <<5, 6>>})
        \cup PawnBoards(<<1, 3>>, FALSE,
                        {<<2, 3>>, <<3, 3>>, <<2, 2>>, <<2, 4>>})

\* the component with a board and options, before its first render
MovesInit(fog, board, playerIsWhite) ==
    [copy |-> "moves",
     fogOfWarEnabled |-> fog,
     board |-> board,
     playerIsWhite |-> playerIsWhite,
     rendered |-> FALSE,
     visibleSquares |-> {},
     selectedPosition |-> NoPos,
     possibleMoves |-> NoMoves]

\* const visibleSquares = calculateVisibleSquares(board, playerColor === "white")
RenderVisible ==
    /\ ~loc.rendered
    /\ loc' = [loc EXCEPT
                !.rendered = TRUE,
                !.visibleSquares =
                    calculateVisibleSquares(loc.fogOfWarEnabled, loc.board,
                                            loc.playerIsWhite)]
    /\ ev' = Ev("render", IF loc.playerIsWhite THEN "white" ELSE "black",
                "visible")
    /\ UNCHANGED <<db, cl, mounted, notif, cont, loads, savedSetups>>

\* const moves = calculatePossibleMoves(board, position, piece)
\* setSelectedPosition(position); setPossibleMoves(moves)
\* (taken for every piece of the board, whoever is to move)
SelectPosition(position) ==
    /\ position \in DOMAIN loc.board
    /\ position # loc.selectedPosition
    /\ loc' = [loc EXCEPT
                !.selectedPosition = position,
                !.possibleMoves =
                    calculatePossibleMoves(loc.fogOfWarEnabled, loc.board,
                                           position, loc.board[position])]
    /\ ev' = [Ev("select", IF loc.board[position].isWhite THEN "white"
                           ELSE "black", "moves")
                EXCEPT !.pos = position, !.piece = loc.board[position]]
    /\ UNCHANGED <<db, cl, mounted, notif, cont, loads, savedSetups>>

InitMoves ==
    /\ db = NewSession(FALSE, TimeLimit)
    /\ cl = [c \in Sides |-> Gone]
    /\ mounted = [c \in Sides |-> FALSE]
    /\ notif = [c \in Sides |-> FALSE]
    /\ cont = [c \in Sides |-> NoCont]
    /\ loads = [c \in Sides |-> MaxLoads]
    /\ savedSetups = [c \in Sides |-> << >>]
    /\ ev = Ev("init", "none", "none")
    /\ loc \in {MovesInit(fog, board, w) :
                    fog \in BOOLEAN, board \in MovesBoards, w \in BOOLEAN}

NextMoves ==
    \/ RenderVisible
    \/ \E position \in Pos : SelectPosition(position)

SpecMoves == InitMoves /\ [][NextMoves]_vars

-----------------------------------------------------------------------------
(* joinGameSession (app/actions.ts) called by several players at once       *)

\* the player who created the game and the players who ask to join it
Creator == "p1"

JoinCallers == {"p1", "p2", "p3", "p4"}

NoPlayer == "null"

NotCalled == [pc |-> "idle", session |-> NoPlayer, error |-> "pending"]

\* the row createGameSession inserted, and no call under way
JoinInit ==
    [copy |-> "join",
     row |-> [player1_id |-> Creator, player2_id |-> NoPlayer,
              status |-> "waiting"],
     call |-> [j \in JoinCallers |-> NotCalled]]

JoinEv(j, what) == Ev("join", j, what)

\* joinGameSession up to the return of its select: the row as it is now
joinGameSessionFetch(j) ==
    /\ loc.copy = "join"
    /\ loc.call[j].pc = "idle"
    /\ loc' = [loc EXCEPT !.call[j] = [pc |-> "fetched",
                                       session |-> loc.row.player2_id,
                                       error |-> "pending"]]
    /\ ev' = JoinEv(j, "fetched")
    /\ UNCHANGED <<db, cl, mounted, notif, cont, loads, savedSetups>>

\* the rest of joinGameSession: the tests on the row it was given, the
\* update by id alone, the return value
joinGameSessionRest(j) ==
    /\ loc.copy = "join"
    /\ loc.call[j].pc = "fetched"
    /\ IF loc.row.player1_id = j
       THEN /\ loc' = [loc EXCEPT
                        !.call[j].pc = "returned",
                        !.call[j].error =
                            "You are already Player 1 in this game."]
            /\ ev' = JoinEv(j, "refused")
       ELSE IF loc.call[j].session # NoPlayer
       THEN /\ loc' = [loc EXCEPT
                        !.call[j].pc = "returned",
                        !.call[j].error =
                            "This game already has two players."]
            /\ ev' = JoinEv(j, "refused")
       ELSE /\ loc' = [loc EXCEPT
                        !.row.player2_id = j,
                        !.row.status = "in_progress",
                        !.call[j].pc = "returned",
                        !.call[j].error = NoPlayer]
            /\ ev' = JoinEv(j, "joined")
    /\ UNCHANGED <<db, cl, mounted, notif, cont, loads, savedSetups>>

InitJoin ==
    /\ db = NewSession(FALSE, TimeLimit)
    /\ cl = [c \in Sides |-> Gone]
    /\ mounted = [c \in Sides |-> FALSE]
    /\ notif = [c \in Sides |-> FALSE]
    /\ cont = [c \in Sides |-> NoCont]
    /\ loads = [c \in Sides |-> MaxLoads]
    /\ savedSetups = [c \in Sides |-> << >>]
    /\ ev = Ev("init", "none", "none")
    /\ loc = JoinInit

NextJoin ==
    \/ \E j \in JoinCallers : joinGameSessionFetch(j)
    \/ \E j \in JoinCallers : joinGameSessionRest(j)

SpecJoin == InitJoin /\ [][NextJoin]_vars

-----------------------------------------------------------------------------
(* Claims on the online game                                               *)

\* the last handler applied a move in the Playing phase
MoveApplied == ev.op = "click" /\ ev.what = "move" /\ ev.phase = "PLAYING"

\* ... and the piece it took was the King of the side that did not move
KingCaptured ==
    /\ MoveApplied
    /\ ev.captured.type = "KING"
    /\ ev.captured.isWhite # ev.piece.isWhite

WinMessage(isWhite) ==
    IF isWhite THEN "White wins! Black king captured."
    ELSE "Black wins! White king captured."

\* C1: a move that captures the opposing King leaves the mover's game in
\* the GameOver phase with gameStatus naming the mover as the winner
C1_CaptureEndsGame ==
    KingCaptured =>
        /\ cl[ev.who].gamePhase = "GAME_OVER"
        /\ cl[ev.who].gameStatus = WinMessage(ev.piece.isWhite)


RECURSIVE SumCosts(_, _)
\* the summed cost of the pieces standing on the squares S
SumCosts(board, S) ==
    IF S = {} THEN 0
    ELSE LET p == CHOOSE q \in S : TRUE
         IN  PIECE_COSTS[board[p].type] + SumCosts(board, S \ {p})

\* the cost of the pieces one side has on the board
SideCost(board, side) ==
    SumCosts(board, {p \in DOMAIN board : board[p].isWhite = (side = "white")})

\* C2: during Setup, for each side the cost of its pieces on the board plus
\* its remaining budget is 39, in the state of every client that is in the
\* Setup phase and in the row the clients persist
C2_BudgetConserved ==
    \A side \in Sides :
        /\ SideCost(db.board_state, side)
                + db[BudgetColumn(side)] = StartBudget
        /\ \A c \in Sides :
                mounted[c] /\ cl[c].gamePhase = "SETUP" =>
                    SideCost(cl[c].board, side) + Budget(cl[c], side)
                        = StartBudget

\* C3: a move is applied only in the Playing phase, to a piece of the side
\* whose turn it is, and to a destination in the legal set (visible or
\* fogged) computed for that piece on the current board
C3_MoveValidated ==
    (ev.op = "click" /\ ev.what = "move") =>
        /\ ev.phase = "PLAYING"
        /\ ev.piece # Null
        /\ ev.piece.isWhite = (ev.turn = "white")
        /\ ev.legal

\* a step of client c that applies a move or lets its move timer expire
TurnEvent(c) ==
    /\ ev'.who = c
    /\ \/ ev'.op = "click" /\ ev'.what = "move"
       \/ ev'.op = "timer" /\ ev'.what = "expired"

C5_SetupToPlaying ==
    [][\A c \in Sides :
        /\ (cl[c].gamePhase = "SETUP" /\ cl'[c].gamePhase = "PLAYING") =>
              /\ SetupComplete(cl[c], Other(c))
              /\ cl'[c].whiteSetupComplete /\ cl'[c].blackSetupComplete
        /\ (/\ ev'.op = "finishRest" /\ ev'.who = c
            /\ mounted[c]
            /\ ~SetupComplete(cl[c], Other(c))) =>
              /\ cl'[c].gamePhase = "SETUP"
              /\ cl'[c].currentPlayerTurn = Other(c)
              /\ db'.current_turn = Other(c)]_vars

\* the second player to finish has just taken its client to Playing
C5_Witness ==
    /\ ev.op = "finishRest" /\ ev.what = "playing"
    /\ cl[ev.who].gamePhase = "PLAYING"
    /\ cl[ev.who].whiteSetupComplete /\ cl[ev.who].blackSetupComplete

KingCount(board, isWhite) ==
    Cardinality({p \in DOMAIN board : board[p] = Piece("KING", isWhite)})

\* the boards of a state: the row, each rendered client in Setup or Playing,
\* the hot-seat copy that runs
Boards ==
    {db.board_state}
        \cup {cl[c].board : c \in {d \in Sides :
                 mounted[d] /\ cl[d].gamePhase \in {"SETUP", "PLAYING"}}}
        \cup (IF loc.copy = "none" THEN {} ELSE {loc.board})

\* a click that tries to place a King for a side that has one
SecondKingAttempt ==
    /\ loc.copy = "v1"
    /\ loc.gamePhase = "SETUP"
    /\ loc.selectedPiece = "KING"
    /\ hasKing(loc.board, loc.currentPlayer)
    /\ ev'.op = "click"
    /\ At(loc.board, ev'.pos) = Null
    /\ InZone(loc.currentPlayer, ev'.pos)

\* C6: every board of Setup and Playing holds at most one King of each
\* side, and a click that would place a second King of a side leaves the
\* board and both budgets as they were
C6_OneKing ==
    /\ [](\A b \in Boards : \A w \in BOOLEAN : KingCount(b, w) <= 1)
    /\ [][SecondKingAttempt =>
            /\ loc'.board = loc.board
            /\ loc'.whiteBudget = loc.whiteBudget
            /\ loc'.blackBudget = loc.blackBudget]_vars

\* a second King was asked for and refused
C6_Witness ==
    /\ loc.copy = "v1"
    /\ ev.op = "click" /\ ev.what = "secondKing"
    /\ KingCount(loc.board, loc.currentPlayer) = 1

\* C8: Finish Setup pressed by a side that has no King on the board fails:
\* the setup flags, the turn, the phase and the board stay as they were
C8_FinishNeedsKing ==
    [][(/\ loc.copy # "none"
        /\ ev'.op = "finish"
        /\ ~hasKing(loc.board, loc.currentPlayer)) =>
            /\ loc'.whiteSetupComplete = loc.whiteSetupComplete
            /\ loc'.blackSetupComplete = loc.blackSetupComplete
            /\ loc'.currentPlayer = loc.currentPlayer
            /\ loc'.gamePhase = loc.gamePhase
            /\ loc'.board = loc.board]_vars

\* C9: when finishSetup has taken a client into Playing, its currentTurn is
\* White and the remaining time of both sides equals moveTimeLimit
C9_PlayingStartsFresh ==
    (/\ ev.op = "finishRest" /\ ev.what = "playing"
     /\ mounted[ev.who]
     /\ cl[ev.who].gamePhase = "PLAYING") =>
        /\ cl[ev.who].currentPlayerTurn = "white"
        /\ cl[ev.who].timeRemainingWhite = cl[ev.who].moveTimeLimit
        /\ cl[ev.who].timeRemainingBlack = cl[ev.who].moveTimeLimit

\* client c is the drafting side with palette piece selected and no board
\* piece selected, and the step is its click on a square: placePiece
PlacePiece(c) ==
    /\ mounted[c] /\ ~cont[c].pending
    /\ cl[c].gamePhase = "SETUP"
    /\ c = cl[c].currentPlayerTurn
    /\ cl[c].selectedPiece # "null"
    /\ cl[c].selectedBoardPosition = NoPos
    /\ ev'.op = "click" /\ ev'.who = c

PlaceAllowed(c, pos) ==
    /\ InZone(c = "white", pos)
    /\ At(cl[c].board, pos) = Null
    /\ Budget(cl[c], c) >= PIECE_COSTS[cl[c].selectedPiece]

\* C10: placePiece succeeds exactly on an empty square of the drafting
\* side's zone with budget for the piece;  then that square alone gets the
\* piece and its cost alone leaves that side's budget, in the client and
\* in the row;  otherwise board and budgets stay as they were
C10_PlacePiece ==
    [][\A c \in Sides : PlacePiece(c) =>
        LET pos == ev'.pos
            kind == cl[c].selectedPiece
            placed == Put(cl[c].board, pos, Piece(kind, c = "white"))
        IN  IF PlaceAllowed(c, pos)
            THEN /\ cl'[c].board = placed
                 /\ Budget(cl'[c], c) = Budget(cl[c], c) - PIECE_COSTS[kind]
                 /\ Budget(cl'[c], Other(c)) = Budget(cl[c], Other(c))
                 /\ db'.board_state = placed
                 /\ db'[BudgetColumn(c)] = Budget(cl'[c], c)
                 /\ db'[BudgetColumn(Other(c))] = db[BudgetColumn(Other(c))]
            ELSE /\ cl'[c].board = cl[c].board
                 /\ cl'[c].whiteBudget = cl[c].whiteBudget
                 /\ cl'[c].blackBudget = cl[c].blackBudget
                 /\ db' = db]_vars

\* a Rook was bought: it stands on the clicked square and 5 points are gone
C10_Witness ==
    /\ ev.op = "click" /\ ev.what = "place"
    /\ mounted[ev.who]
    /\ At(cl[ev.who].board, ev.pos) = Piece("ROOK", ev.who = "white")
    /\ Budget(cl[ev.who], ev.who) = StartBudget - PIECE_COSTS["ROOK"]

\* the step removed a piece with the Delete button
PieceRemoved == ev'.op = "delete" /\ ev'.what = "removed"

\* C11: removePiece removes only a piece that is no King and belongs to
\* the side whose draft turn it is, and credits that piece's cost to that
\* same side's budget, the other budget staying as it was
C11_RemoveOwnPiece ==
    [][PieceRemoved =>
        LET side == ev'.turn
            old == IF loc.copy = "none" THEN cl[ev'.who] ELSE loc
            new == IF loc.copy = "none" THEN cl'[ev'.who] ELSE loc'
        IN  /\ ev'.phase = "SETUP"
            /\ ev'.piece.type # "KING"
            /\ ev'.piece.isWhite = (side = "white")
            /\ new.board = Put(old.board, ev'.pos, Null)
            /\ Budget(new, side) = Budget(old, side)
                                    + PIECE_COSTS[ev'.piece.type]
            /\ Budget(new, Other(side)) = Budget(old, Other(side))]_vars

\* the step of the online game moved a placed piece of the drafting side
\* within its zone
Relocated == loc.copy = "none" /\ ev'.op = "click" /\ ev'.what = "relocate"

\* C12: relocating a placed piece to an empty square of the zone leaves
\* both budgets as they were, in the client and in the values it persists
C12_RelocationIsFree ==
    [][(Relocated /\ ev'.captured = Null) =>
        LET c == ev'.who
        IN  /\ cl'[c].whiteBudget = cl[c].whiteBudget
            /\ cl'[c].blackBudget = cl[c].blackBudget
            /\ db'.white_budget = cl[c].whiteBudget
            /\ db'.black_budget = cl[c].blackBudget]_vars

\* C13: a relocation onto a square of the zone that holds an opponent's
\* piece removes that piece and credits its cost to the budget of the side
\* that moved, in the client and in the value it persists
C13_CaptureRefund ==
    [][(/\ Relocated
        /\ ev'.captured # Null
        /\ ev'.captured.isWhite # (ev'.who = "white")) =>
        LET c == ev'.who
            refund == PIECE_COSTS[ev'.captured.type]
        IN  /\ At(cl'[c].board, ev'.pos) = ev'.piece
            /\ Budget(cl'[c], c) = Budget(cl[c], c) + refund
            /\ db'[BudgetColumn(c)] = Budget(cl[c], c) + refund]_vars

\* C14: the countdown of a client runs only while its phase is Playing, it
\* is that client's side's turn and moveTimeLimit is positive;  with the
\* limit 0 no tick and no forced turn switch happens
C14_TimerGuard ==
    [][\A c \in Sides : (ev'.op = "timer" /\ ev'.who = c) =>
        /\ cl[c].gamePhase = "PLAYING"
        /\ cl[c].currentPlayerTurn = c
        /\ cl[c].moveTimeLimit > 0]_vars

\* the step is the tick on which the move timer of client c ran out
TimedOut(c) == ev'.op = "timer" /\ ev'.what = "expired" /\ ev'.who = c

\* C15: when the time of the side to move runs out in Playing the turn
\* goes to the other side with no move made: board, move history and phase
\* stay as they were in the client and in the row, and the game goes on
C15_TimeoutPassesTurn ==
    [][\A c \in Sides : TimedOut(c) =>
        /\ cl[c].gamePhase = "PLAYING"
        /\ cl'[c].gamePhase = "PLAYING"
        /\ cl'[c].currentPlayerTurn = Other(cl[c].currentPlayerTurn)
        /\ cl'[c].board = cl[c].board
        /\ cl'[c].moveHistory = cl[c].moveHistory
        /\ cl'[c].gameStatus = cl[c].gameStatus
        /\ db'.current_turn = cl'[c].currentPlayerTurn
        /\ db'.board_state = db.board_state
        /\ db'.move_history = db.move_history
        /\ db'.status = db.status]_vars

\* White's time has run out: it is Black's turn and the game is still on
C15_Witness ==
    /\ ev.op = "timer" /\ ev.what = "expired"
    /\ cl[ev.who].gamePhase = "PLAYING"
    /\ ev.turn = ev.who
    /\ cl[ev.who].currentPlayerTurn = Other(ev.who)
    /\ cl[ev.who].moveHistory = << >>

\* client d, in Playing, is notified of a row in which the turn has gone
\* to the other side
HearsTurnSwitch(d) ==
    /\ ev'.op = "deliver" /\ ev'.who = d
    /\ cl[d].gamePhase = "PLAYING"
    /\ db.current_turn # cl[d].currentPlayerTurn

\* the remaining time the row holds for a side
RowTime(row, side) ==
    IF side = "white" THEN row.time_remaining_white
    ELSE row.time_remaining_black

\* the client that switches the turn in Playing, and the row it writes,
\* give the side that becomes active the full moveTimeLimit
SwitchGivesFullTime ==
    [][\A c \in Sides :
            (TurnEvent(c) /\ cl[c].gamePhase = "PLAYING"
                /\ cl'[c].gamePhase = "PLAYING") =>
                LET active == cl'[c].currentPlayerTurn
                IN  /\ TimeRemaining(cl'[c], active) = cl'[c].moveTimeLimit
                    /\ RowTime(db', active) = db'.move_time_limit]_vars

\* C16: when the turn switches in Playing, by a move or by a timer expiry,
\* the side that becomes active has the full moveTimeLimit: in the client
\* that made the switch, in the row, and in the client that is notified
C16_FreshTimer ==
    /\ SwitchGivesFullTime
    /\ [][\A d \in Sides : HearsTurnSwitch(d) =>
            /\ cl'[d].currentPlayerTurn = db.current_turn
            /\ TimeRemaining(cl'[d], db.current_turn) = db.move_time_limit]_vars

\* C17: a client that receives a change notification holds afterwards the
\* board, turn, move history, budgets, setup flags and timers of the row
C17_RemoteUpdateReplaces ==
    [][\A d \in Sides : (ev'.op = "deliver" /\ ev'.who = d) =>
            /\ mounted'[d]
            /\ cl'[d].board = db.board_state
            /\ cl'[d].currentPlayerTurn = db.current_turn
            /\ cl'[d].moveHistory = db.move_history
            /\ cl'[d].whiteBudget = db.white_budget
            /\ cl'[d].blackBudget = db.black_budget
            /\ cl'[d].whiteSetupComplete = db.white_setup_complete
            /\ cl'[d].blackSetupComplete = db.black_setup_complete
            /\ cl'[d].timeRemainingWhite = db.time_remaining_white
            /\ cl'[d].timeRemainingBlack = db.time_remaining_black]_vars

\* the phase a row stands for: finishSetup moves to PLAYING once both
\* setup flags are set, the subscription takes status "finished" as
\* GAME_OVER, and the component takes status "waiting" as
\* WAITING_FOR_OPPONENT
SnapshotPhase(row) ==
    IF row.status = "waiting" THEN "WAITING_FOR_OPPONENT"
    ELSE IF row.status = "finished" THEN "GAME_OVER"
    ELSE IF row.white_setup_complete /\ row.black_setup_complete
         THEN "PLAYING"
    ELSE "SETUP"

\* C18: a client that has just been hydrated from a row holds the phase,
\* turn, board, budgets, setup flags, timers and move history of that row,
\* also when the row is one of a game in Playing
C18_HydrateRoundTrip ==
    [][\A c \in Sides : (ev'.op = "mount" /\ ev'.who = c) =>
            /\ cl'[c].gamePhase = SnapshotPhase(db)
            /\ cl'[c].currentPlayerTurn = db.current_turn
            /\ cl'[c].board = db'.board_state
            /\ cl'[c].moveHistory = db.move_history
            /\ cl'[c].whiteBudget = db.white_budget
            /\ cl'[c].blackBudget = db.black_budget
            /\ cl'[c].whiteSetupComplete = db.white_setup_complete
            /\ cl'[c].blackSetupComplete = db.black_setup_complete
            /\ cl'[c].timeRemainingWhite = db.time_remaining_white
            /\ cl'[c].timeRemainingBlack = db.time_remaining_black]_vars

\* max(|dr|, |dc|) of two squares
Chebyshev(p, q) ==
    IF Abs(p[1] - q[1]) > Abs(p[2] - q[2]) THEN Abs(p[1] - q[1])
    ELSE Abs(p[2] - q[2])

\* C19: with fog of war a square is visible exactly when it is within
\* Chebyshev distance 1 of a square holding a piece of the side (its own
\* square included); without fog of war every square is visible
C19_VisibleSquares ==
    loc.rendered =>
        \A q \in Pos :
            q \in loc.visibleSquares <=>
                \/ ~loc.fogOfWarEnabled
                \/ \E p \in Pos :
                    /\ At(loc.board, p) # Null
                    /\ At(loc.board, p).isWhite = loc.playerIsWhite
                    /\ Chebyshev(p, q) <= 1

\* fog of war, the side's only piece stands on (4,4): the nine squares
\* around it are visible; and a corner piece, where the square is clipped
C19_Witness ==
    /\ loc.rendered
    /\ loc.fogOfWarEnabled
    /\ \/ /\ DOMAIN loc.board = {<<4, 4>>}
          /\ loc.board[<<4, 4>>].isWhite = loc.playerIsWhite
          /\ loc.visibleSquares = (3..5) \X (3..5)
       \/ /\ DOMAIN loc.board = {<<0, 0>>}
          /\ loc.board[<<0, 0>>].isWhite = loc.playerIsWhite
          /\ loc.visibleSquares = (0..1) \X (0..1)

\* C20: without fog of war the move generator returns no fog moves, so
\* every destination it offers is a visible move on a visible square
C20_NoFogMovesWithoutFog ==
    (loc.selectedPosition # NoPos /\ ~loc.fogOfWarEnabled) =>
        /\ loc.possibleMoves.fogMoves = {}
        /\ loc.possibleMoves.visibleMoves \subseteq
                calculateVisibleSquares(loc.fogOfWarEnabled, loc.board,
                    loc.board[loc.selectedPosition].isWhite)

\* without fog of war a Rook in the corner is offered the far end of its
\* row, a square no piece of its side is next to
C20_Witness ==
    /\ ~loc.fogOfWarEnabled
    /\ loc.selectedPosition = <<0, 0>>
    /\ loc.board[<<0, 0>>].type = "ROOK"
    /\ <<0, 7>> \in loc.possibleMoves.visibleMoves
    /\ loc.possibleMoves.fogMoves = {}

\* the directions a sliding piece moves in
SlideDirs(type) ==
    CASE type = "ROOK" -> RookDirs
      [] type = "BISHOP" -> BishopDirs
      [] OTHER -> RookDirs \cup BishopDirs

\* the i-th square from pos in direction d
Step(pos, d, i) == <<pos[1] + d[1] * i, pos[2] + d[2] * i>>

\* a Rook, Bishop or Queen is selected
SliderSelected ==
    /\ loc.selectedPosition # NoPos
    /\ loc.board[loc.selectedPosition].type \in {"ROOK", "BISHOP", "QUEEN"}

\* C21: without fog of war the destinations of a Rook, Bishop or Queen along
\* each direction are the empty squares up to the first occupied square,
\* plus that square iff it holds an opposing piece, and nothing behind it
C21_RayStopsAtBlocker ==
    (SliderSelected /\ ~loc.fogOfWarEnabled) =>
        LET pos == loc.selectedPosition
            piece == loc.board[pos]
            dirs == SlideDirs(piece.type)
            moves == loc.possibleMoves.visibleMoves
        IN  /\ \A d \in dirs : \A i \in 1..7 :
                LET q == Step(pos, d, i)
                IN  q \in Pos =>
                      (q \in moves <=>
                        /\ \A j \in 1..(i - 1) :
                                At(loc.board, Step(pos, d, j)) = Null
                        /\ \/ At(loc.board, q) = Null
                           \/ At(loc.board, q).isWhite # piece.isWhite)
            /\ moves \subseteq {Step(pos, d, i) : d \in dirs, i \in 1..7}

\* a white Rook on (4,4) with a black piece on (3,4): the capture is
\* offered, the square behind it is not
C21_Witness ==
    /\ SliderSelected
    /\ ~loc.fogOfWarEnabled
    /\ loc.selectedPosition = <<4, 4>>
    /\ loc.board[<<4, 4>>] = Piece("ROOK", TRUE)
    /\ At(loc.board, <<3, 4>>) = Piece("ROOK", FALSE)
    /\ <<3, 4>> \in loc.possibleMoves.visibleMoves
    /\ <<2, 4>> \notin loc.possibleMoves.visibleMoves
    /\ <<5, 4>> \in loc.possibleMoves.visibleMoves

\* the squares with two squares of board on every side
Central == (2..5) \X (2..5)

Corners == {0, 7} \X {0, 7}

\* the selected piece is the only piece on the board, and fog of war is off
AloneSelected ==
    /\ loc.selectedPosition # NoPos
    /\ DOMAIN loc.board = {loc.selectedPosition}
    /\ ~loc.fogOfWarEnabled

Destinations ==
    Cardinality(loc.possibleMoves.visibleMoves \cup loc.possibleMoves.fogMoves)

\* C22: alone on the board and without fog of war, a Rook has 14
\* destinations on any square, a Knight and a King have 8 on a central
\* square, a Bishop has 7 in a corner
C22_ClosedForms ==
    AloneSelected =>
        LET pos == loc.selectedPosition
            type == loc.board[pos].type
        IN  /\ type = "ROOK" => Destinations = 14
            /\ (type = "KNIGHT" /\ pos \in Central) => Destinations = 8
            /\ (type = "KING" /\ pos \in Central) => Destinations = 8
            /\ (type = "BISHOP" /\ pos \in Corners) => Destinations = 7

\* the Rook alone in the corner (7,7) with its 14 destinations, the far
\* corners of its row and column among them
C22_Witness ==
    /\ AloneSelected
    /\ loc.selectedPosition = <<7, 7>>
    /\ loc.board[<<7, 7>>].type = "ROOK"
    /\ Destinations = 14
    /\ {<<0, 7>>, <<7, 0>>} \subseteq loc.possibleMoves.visibleMoves

PawnSelected ==
    /\ loc.selectedPosition # NoPos
    /\ loc.board[loc.selectedPosition].type = "PAWN"

\* C23: without fog of war a Pawn's destinations are the square ahead iff
\* it is empty, the second square ahead iff the Pawn is on its start row
\* (6 for White, 1 for Black) and both squares ahead are empty, and each
\* square diagonally ahead iff it holds an opposing piece
C23_PawnMoves ==
    (PawnSelected /\ ~loc.fogOfWarEnabled) =>
        LET pos == loc.selectedPosition
            piece == loc.board[pos]
            ahead == IF piece.isWhite THEN -1 ELSE 1
            home == IF piece.isWhite THEN 6 ELSE 1
            moves == loc.possibleMoves.visibleMoves
                        \cup loc.possibleMoves.fogMoves
        IN  \A q \in Pos :
                q \in moves <=>
                    \/ /\ q = <<pos[1] + ahead, pos[2]>>
                       /\ At(loc.board, q) = Null
                    \/ /\ q = <<pos[1] + 2 * ahead, pos[2]>>
                       /\ pos[1] = home
                       /\ At(loc.board, <<pos[1] + ahead, pos[2]>>) = Null
                       /\ At(loc.board, q) = Null
                    \/ /\ q[1] = pos[1] + ahead
                       /\ Abs(q[2] - pos[2]) = 1
                       /\ At(loc.board, q) # Null
                       /\ At(loc.board, q).isWhite # piece.isWhite

\* the white Pawn on its start square (6,7): with nothing ahead it has the
\* single and the double step and no capture; with a black piece on (5,6)
\* it has the capture as well
C23_Witness ==
    /\ PawnSelected
    /\ ~loc.fogOfWarEnabled
    /\ loc.selectedPosition = <<6, 7>>
    /\ loc.board[<<6, 7>>].isWhite
    /\ At(loc.board, <<5, 6>>) = Piece("ROOK", FALSE)
    /\ loc.possibleMoves.visibleMoves = {<<5, 7>>, <<4, 7>>, <<5, 6>>}

\* the last handler applied a pawn move that stays in the pawn's column
PawnForwardMove ==
    /\ ev.op = "click" /\ ev.what = "move"
    /\ ev.piece.type = "PAWN"
    /\ ev.pos[2] = ev.from[2]

\* C24: a pawn move that stays in its column, by one step or two, with or
\* without fog of war, lands on a square that was empty before the move
C24_PawnForwardNeverCaptures ==
    PawnForwardMove => ev.captured = Null

\* the step about to be taken moves a Rook, Bishop or Queen of the hot-seat
\* copy to a destination offered as a fog move, with fog of war on
FogSlide ==
    /\ ev'.op = "click" /\ ev'.what = "move"
    /\ ev'.piece.type \in {"ROOK", "BISHOP", "QUEEN"}
    /\ loc.fogOfWarEnabled
    /\ ev'.target \in loc.possibleMoves.fogMoves

\* the squares from the origin (excluded) to the clicked square (included)
SlidePath ==
    LET d == <<Sign(ev'.target[1] - ev'.from[1]),
               Sign(ev'.target[2] - ev'.from[2])>>
    IN  [i \in 1..Chebyshev(ev'.from, ev'.target) |-> Step(ev'.from, d, i)]

\* indices of the occupied squares of the path, on the board before the move
SlideHits == {i \in DOMAIN SlidePath : At(loc.board, SlidePath[i]) # Null}

FirstHit == SlidePath[CHOOSE i \in SlideHits : \A j \in SlideHits : i <= j]

\* C25 as stated: the piece lands on the first occupied square of the path,
\* and it lands on the clicked square exactly when the whole path, the
\* clicked square included, is empty
C25_FogSlideAsStated ==
    [][FogSlide =>
        /\ SlideHits # {} => ev'.pos = FirstHit
        /\ ev'.pos = ev'.target <=> SlideHits = {}]_vars

\* C25: the piece lands on the first occupied square of the path from its
\* origin to the clicked square, the clicked square included, and captures
\* what stands there;  it lands on the clicked square when the path holds
\* no piece, and the piece arrives on the landing square
C25_FogSlideStopsAtFirstPiece ==
    [][FogSlide =>
        /\ ev'.pos = IF SlideHits # {} THEN FirstHit ELSE ev'.target
        /\ ev'.captured = At(loc.board, ev'.pos)
        /\ At(loc'.board, ev'.pos) = ev'.piece
        /\ At(loc'.board, ev'.from) = Null]_vars

\* a sliding piece was sent into the fog and stopped short of the clicked
\* square, on a piece it captured
C25_Witness ==
    /\ ev.op = "click" /\ ev.what = "move"
    /\ ev.piece.type \in {"ROOK", "QUEEN"}
    /\ loc.fogOfWarEnabled
    /\ ev.target = <<0, 3>>
    /\ ev.pos = <<1, 3>>
    /\ ev.captured # Null
    /\ At(loc.board, <<1, 3>>) = ev.piece

\* square q is next to, or holds, a piece of the colour isWhite
SeenBy(isWhite, q) ==
    \E p \in Pos :
        /\ At(loc.board, p) # Null
        /\ At(loc.board, p).isWhite = isWhite
        /\ Chebyshev(p, q) <= 1

\* the ray from pos in direction d has not stopped before its i-th square:
\* no earlier square of it is both seen and occupied
RayOpen(isWhite, pos, d, i) ==
    \A j \in 1..(i - 1) :
        ~(SeenBy(isWhite, Step(pos, d, j))
            /\ At(loc.board, Step(pos, d, j)) # Null)

\* C26: with fog of war each ray of a Rook, Bishop or Queen stops at the
\* first visible square that holds a piece, a visible destination iff the
\* piece is an opposing one;  before the stop a visible empty square is a
\* visible destination and a hidden square a fog destination, whatever
\* stands on it;  nothing else is a destination
C26_FogRays ==
    (SliderSelected /\ loc.fogOfWarEnabled) =>
        LET pos == loc.selectedPosition
            piece == loc.board[pos]
            w == piece.isWhite
            dirs == SlideDirs(piece.type)
            vis == loc.possibleMoves.visibleMoves
            fogged == loc.possibleMoves.fogMoves
            squares == {Step(pos, d, i) : d \in dirs, i \in 1..7}
        IN  /\ vis \cup fogged \subseteq squares
            /\ vis \cap fogged = {}
            /\ \A d \in dirs : \A i \in 1..7 :
                LET q == Step(pos, d, i)
                IN  q \in Pos =>
                    /\ q \in fogged <=>
                            RayOpen(w, pos, d, i) /\ ~SeenBy(w, q)
                    /\ q \in vis <=>
                            /\ RayOpen(w, pos, d, i)
                            /\ SeenBy(w, q)
                            /\ \/ At(loc.board, q) = Null
                               \/ At(loc.board, q).isWhite # w

\* a Bishop or Queen in the corner (0,0) with a hidden piece on (4,4): the
\* ray runs over it, (4,4) and the squares behind it are fog destinations
C26_Witness ==
    /\ SliderSelected
    /\ loc.fogOfWarEnabled
    /\ loc.selectedPosition = <<0, 0>>
    /\ At(loc.board, <<4, 4>>) # Null
    /\ {<<4, 4>>, <<5, 5>>, <<7, 7>>} \subseteq loc.possibleMoves.fogMoves
    /\ <<1, 1>> \in loc.possibleMoves.visibleMoves

\* <file><rank> of a square: file 'a' + col, rank 8 - row
Algebraic(p) ==
    <<"a", "b", "c", "d", "e", "f", "g", "h">>[p[2] + 1] \o ToString(8 - p[1])

\* the handler that ran applied a move of the online game
OnlineMove ==
    loc.copy = "none" /\ ev'.op = "click" /\ ev'.what = "move"

\* C27: the move history only grows, by the applied moves: a move appends
\* <origin>-<landing square> to the history of the client and of the row,
\* and no other handler (timer, reset, notification) changes the history
\* of the row or of a client that stays on the page
C27_HistoryAppendOnly ==
    [][/\ OnlineMove =>
            LET c == ev'.who
                entry == Algebraic(ev'.from) \o "-" \o Algebraic(ev'.pos)
            IN  /\ cl'[c].moveHistory = Append(cl[c].moveHistory, entry)
                /\ db'.move_history = Append(db.move_history, entry)
       /\ (loc.copy = "none" /\ ~OnlineMove) =>
            /\ db'.move_history = db.move_history
            /\ \A c \in Sides :
                    (mounted[c] /\ mounted'[c] /\ ev'.op # "mount") =>
                        cl'[c].moveHistory = cl[c].moveHistory]_vars

\* the place of a phase in WaitingForOpponent, Setup, Playing, GameOver
PhaseRank(phase) ==
    CASE phase = "WAITING_FOR_OPPONENT" -> 0
      [] phase = "SETUP" -> 1
      [] phase = "PLAYING" -> 2
      [] phase = "GAME_OVER" -> 3
      [] OTHER -> -1

\* C28: the phase of a client never moves backwards along
\* WaitingForOpponent, Setup, Playing, GameOver, whatever handler runs
C28_PhaseForward ==
    [][\A c \in Sides :
            (cl[c].gamePhase # "NONE" /\ cl'[c].gamePhase # "NONE") =>
                PhaseRank(cl'[c].gamePhase) >= PhaseRank(cl[c].gamePhase)]_vars

\* the handlers of a square click (placement included), of Delete, of a
\* preset, of Reset My Setup and of Finish Setup
TurnBound == {"click", "delete", "classic", "load", "resetSide", "finish"}

\* client c issues one of them while its state says it is the other side's
\* turn
OutOfTurn(c) ==
    /\ ev'.op \in TurnBound /\ ev'.who = c
    /\ mounted[c]
    /\ cl[c].currentPlayerTurn # c

AwaitsStart(c) ==
    /\ mounted[c] /\ notif[c]
    /\ cl[c].gamePhase = "SETUP"
    /\ db.white_setup_complete /\ db.black_setup_complete

\* C30: once both sides have finished setup, a connected client that is
\* sent the change is eventually in Playing
C30_BothReachPlaying ==
    \A c \in Sides : AwaitsStart(c) ~> (cl[c].gamePhase = "PLAYING")

\* ---- C31 --------------------------------------------------------------
Sliders == {"ROOK", "BISHOP", "QUEEN"}

\* the squares strictly between two squares of one rank, file or diagonal
Between(a, b) ==
    LET dr == Sign(b[1] - a[1])
        dc == Sign(b[2] - a[2])
        n  == IF Abs(b[1] - a[1]) > Abs(b[2] - a[2])
              THEN Abs(b[1] - a[1]) ELSE Abs(b[2] - a[2])
    IN  {<<a[1] + i * dr, a[2] + i * dc>> : i \in 1..(n - 1)}

\* a Rook, Bishop or Queen move of the hot-seat copy is applied in this step
SliderMoveApplied ==
    /\ loc.copy = "hotseat"
    /\ ev'.op = "click" /\ ev'.what = "move"
    /\ ev'.piece # Null /\ ev'.piece.type \in Sliders

\* C31: a sliding piece never jumps over a piece: whenever a Rook, Bishop or
\* Queen move is applied, with fog on or off, every square strictly between
\* the origin and the landing square is empty on the board of that moment,
\* also when the destination is a visible square beyond hidden squares.
C31_SliderNeverJumps ==
    [][SliderMoveApplied =>
          \A q \in Between(ev'.from, ev'.pos) : At(loc.board, q) = Null]_vars

\* a Rook has just landed on a visible square that lay beyond a hidden
\* square of its row which holds a piece
C31_Jumped ==
    /\ loc.copy = "hotseat"
    /\ loc.fogOfWarEnabled
    /\ ev.op = "click" /\ ev.what = "move"
    /\ ev.piece # Null /\ ev.piece.type = "ROOK"
    /\ ev.pos = ev.target
    /\ \E q \in Between(ev.from, ev.pos) : At(loc.board, q) # Null

\* ---- C32 --------------------------------------------------------------
\* a move of the hot-seat copy is applied in this step
HsMoveApplied ==
    loc.copy = "hotseat" /\ ev'.op = "click" /\ ev'.what = "move"

\* C32: an applied move in Playing changes exactly two squares: afterwards
\* the origin is empty, the landing square holds the moved piece and every
\* other square is as before; the landing square is not the origin and did
\* not hold a piece of the mover's side, with fog on or off.
C32_MoveFrame ==
    [][HsMoveApplied =>
          /\ ev'.piece = At(loc.board, ev'.from)
          /\ ev'.piece # Null
          /\ ev'.pos # ev'.from
          /\ \/ At(loc.board, ev'.pos) = Null
             \/ At(loc.board, ev'.pos).isWhite # ev'.piece.isWhite
          /\ \A q \in Pos :
                At(loc'.board, q) =
                    IF q = ev'.from THEN Null
                    ELSE IF q = ev'.pos THEN ev'.piece
                    ELSE At(loc.board, q)]_vars

\* a move into the fog has just been applied and took a piece
C32_Witness ==
    /\ loc.copy = "hotseat"
    /\ loc.fogOfWarEnabled
    /\ ev.op = "click" /\ ev.what = "move"
    /\ ev.captured # Null
    /\ At(loc.board, ev.from) = Null
    /\ At(loc.board, ev.pos) = ev.piece

\* ---- C33 --------------------------------------------------------------
\* squares on which the compared boards may differ
VariedSquares == MovesSquares \cup {<<4, 7>>, <<3, 3>>}

\* the boards that agree with the board shown on every piece of the colour
\* isWhite and on every square that colour sees, and differ from it on one
\* hidden square, which is emptied or given an opposing Rook
HiddenVariants(isWhite) ==
    {Put(loc.board, q, y) :
        q \in {p \in VariedSquares \cup DOMAIN loc.board :
                    ~SeenBy(isWhite, p)},
        y \in {Null, Piece("ROOK", ~isWhite)}}

\* C33: with fog of war the visible and the fogged destinations of a piece
\* depend only on the mover's own pieces and on what stands on the squares
\* the mover sees: a board that agrees on these gives the same two sets
C33_HiddenContentsDoNotMatter ==
    (loc.copy = "moves" /\ loc.fogOfWarEnabled
        /\ loc.selectedPosition # NoPos) =>
        LET pos == loc.selectedPosition
            piece == loc.board[pos]
        IN  \A other \in HiddenVariants(piece.isWhite) :
                calculatePossibleMoves(TRUE, other, pos, piece)
                    = loc.possibleMoves

\* a Pawn on its start row whose double step leads onto a hidden square
\* that holds a piece; the board with that square emptied is compared
C33_Witness ==
    /\ loc.copy = "moves" /\ loc.fogOfWarEnabled
    /\ PawnSelected
    /\ \E q \in loc.possibleMoves.fogMoves :
          /\ At(loc.board, q) # Null
          /\ q[2] = loc.selectedPosition[2]
          /\ Put(loc.board, q, Null)
                \in HiddenVariants(loc.board[loc.selectedPosition].isWhite)

\* ---- C34 --------------------------------------------------------------
\* the setup flag the row holds for a side
RowSetupComplete(side) ==
    IF side = "white" THEN db.white_setup_complete
    ELSE db.black_setup_complete

\* C34: every row stored during Setup is consistent: as long as the row
\* stands for the Setup phase, its current_turn never names a side whose
\* setup flag in the row is already true, so the flag and the turn written
\* by one finishSetup are never stored half-applied
C34_SetupSnapshotConsistent ==
    SnapshotPhase(db) = "SETUP" => ~RowSetupComplete(db.current_turn)

\* ---- C35 --------------------------------------------------------------
\* the call of player j has returned { error: null }
Joined(j) ==
    loc.call[j].pc = "returned" /\ loc.call[j].error = NoPlayer

\* C35: when distinct players call joinGameSession on the same waiting game
\* at the same time, at most one call returns success, and the player2_id
\* of the row is the caller that was told it joined: a successful join is
\* never overwritten by another joiner
C35_OneJoinerWins ==
    loc.copy = "join" =>
        /\ \A j \in JoinCallers, k \in JoinCallers :
              (Joined(j) /\ Joined(k)) => j = k
        /\ \A j \in JoinCallers : Joined(j) => loc.row.player2_id = j

\* ---- C36 --------------------------------------------------------------
\* every piece of the board stands in the draft zone of its colour
AllInZone(board) ==
    \A p \in DOMAIN board : InZone(board[p].isWhite, p)

\* C36: during Setup (the row stands for Setup and has no move yet), after
\* any setup operations, loading a layout saved while playing the other
\* colour included, every White piece stands in rows 5-7 and every Black
\* piece in rows 0-2, on the row and on the board of each client
C36_PiecesInOwnZone ==
    (loc.copy = "none" /\ SnapshotPhase(db) = "SETUP"
        /\ db.move_history = << >>) =>
        /\ AllInZone(db.board_state)
        /\ \A c \in Sides :
              (mounted[c] /\ cl[c].gamePhase = "SETUP") =>
                  AllInZone(cl[c].board)

\* ---- C37 --------------------------------------------------------------
\* client c is on the page in Setup and it is its draft turn
Drafting(c) ==
    /\ loc.copy = "none"
    /\ mounted[c]
    /\ cl[c].gamePhase = "SETUP"
    /\ cl[c].currentPlayerTurn = c

\* C37: in Setup, on a side's draft turn, after each completed operation of
\* that side (default placement, move, delete, preset, saved layout, reset)
\* the board of that side holds exactly one King of its colour
C37_DraftingSideHasOneKing ==
    \A c \in Sides :
        Drafting(c) => KingCount(cl[c].board, c = "white") = 1

\* the drafting side has just moved its King off the default square
C37_Witness ==
    \E c \in Sides :
        /\ Drafting(c)
        /\ ev.op = "click" /\ ev.what = "relocate" /\ ev.who = c
        /\ ev.piece = Piece("KING", c = "white")
        /\ At(cl[c].board, getDefaultKingPosition(c = "white")) = Null
        /\ KingCount(cl[c].board, c = "white") = 1

\* ---- C38 --------------------------------------------------------------
BudgetRange == 0..StartBudget

\* C38: the remaining budget of each side is an integer from 0 to 39 in
\* every reachable state, in the state of each client on the page and in
\* the row the clients persist
C38_BudgetInRange ==
    loc.copy = "none" =>
        /\ db.white_budget \in BudgetRange
        /\ db.black_budget \in BudgetRange
        /\ \A c \in Sides :
              (mounted[c] /\ cl[c].gamePhase \in {"SETUP", "PLAYING"}) =>
                  /\ cl[c].whiteBudget \in BudgetRange
                  /\ cl[c].blackBudget \in BudgetRange

\* ---- C39 --------------------------------------------------------------
\* the two squares diagonally ahead of a pawn of colour isWhite on pos
PawnDiagonals(pos, isWhite) ==
    {q \in Pos : /\ q[1] = pos[1] + (IF isWhite THEN -1 ELSE 1)
                 /\ q[2] - pos[2] \in {-1, 1}}

\* the square holds a piece of the other colour than isWhite
HoldsEnemy(board, q, isWhite) ==
    At(board, q) # Null /\ At(board, q).isWhite # isWhite

\* C39: with fog of war no pawn moves diagonally onto an empty square: the
\* squares diagonally ahead of a pawn are visible to its side, so they are
\* never fog destinations, they are offered only while they hold an
\* opposing piece, and an applied diagonal pawn move takes an opposing piece
C39_PawnDiagonalOnlyCaptures ==
    [][(loc.copy = "hotseat" /\ loc.fogOfWarEnabled) =>
          /\ (loc.selectedPosition # NoPos
                /\ At(loc.board, loc.selectedPosition).type = "PAWN") =>
                LET w == At(loc.board, loc.selectedPosition).isWhite
                IN  \A q \in PawnDiagonals(loc.selectedPosition, w) :
                      /\ q \in calculateVisibleSquares(TRUE, loc.board, w)
                      /\ q \notin loc.possibleMoves.fogMoves
                      /\ q \in loc.possibleMoves.visibleMoves
                            <=> HoldsEnemy(loc.board, q, w)
          /\ (ev'.op = "click" /\ ev'.what = "move"
                /\ ev'.piece.type = "PAWN"
                /\ ev'.pos[2] # ev'.from[2]) =>
                /\ ev'.pos \in PawnDiagonals(ev'.from, ev'.piece.isWhite)
                /\ HoldsEnemy(loc.board, ev'.pos, ev'.piece.isWhite)
                /\ ev'.captured = At(loc.board, ev'.pos)]_vars

\* with fog on, a Pawn has just taken a piece on a square diagonally ahead
C39_Witness ==
    /\ loc.copy = "hotseat" /\ loc.fogOfWarEnabled
    /\ ev.op = "click" /\ ev.what = "move"
    /\ ev.piece.type = "PAWN"
    /\ ev.pos \in PawnDiagonals(ev.from, ev.piece.isWhite)
    /\ ev.captured # Null
    /\ ev.captured.isWhite # ev.piece.isWhite

====
